---- MODULE Spec2Model ----
(***************************************************************************)
(* The XBRL taxonomy loader of GoldenDaytona/taxonomy_package:            *)
(* XBRLTaxonomyParser as shipped in the package xbrl_taxonomy_parser      *)
(* (parser.py + utils.py) and in the standalone script                    *)
(* xbrl-taxonomy-parser.py.  The handlers of the two are the same code;   *)
(* they differ in the path resolver and in the NAMESPACES table.          *)
(*                                                                         *)
(* Python strings that the code splits, joins or searches (paths, hrefs,  *)
(* namespaces, element names, concept ids) are sequences of one-character *)
(* strings.  Strings that are only stored and compared (role URIs, label  *)
(* text, attribute values) are TLA+ strings.                              *)
(***************************************************************************)
EXTENDS Integers, Sequences, FiniteSets, TLC

(***************************************************************************)
(* Python string primitives used by the code.                             *)
(***************************************************************************)

\* str.startswith(p)
StartsWith(s, p) ==
    /\ Len(p) <= Len(s)
    /\ SubSeq(s, 1, Len(p)) = p

\* the `in` operator on two strings: x occurs in y as a contiguous substring
InStr(x, y) ==
    \E i \in 0..(Len(y) - Len(x)) : SubSeq(y, i + 1, i + Len(x)) = x

\* index of the first occurrence of character c in s, 0 when there is none
FirstIndex(s, c) ==
    IF \E i \in 1..Len(s) : s[i] = c
    THEN CHOOSE i \in 1..Len(s) : s[i] = c /\ \A j \in 1..(i - 1) : s[j] # c
    ELSE 0

\* index of the last occurrence of character c in s, 0 when there is none
LastIndex(s, c) ==
    IF \E i \in 1..Len(s) : s[i] = c
    THEN CHOOSE i \in 1..Len(s) : s[i] = c /\ \A j \in (i + 1)..Len(s) : s[j] # c
    ELSE 0

\* f"{namespace}#{name}"
ConceptId(namespace, name) == namespace \o <<"#">> \o name

(***************************************************************************)
(* os.path on POSIX.                                                      *)
(***************************************************************************)

\* os.path.isabs
IsAbs(p) == Len(p) > 0 /\ p[1] = "/"

RECURSIVE RStripSlash(_)
RStripSlash(p) ==
    IF Len(p) > 0 /\ p[Len(p)] = "/" THEN RStripSlash(SubSeq(p, 1, Len(p) - 1)) ELSE p

\* os.path.dirname
Dirname(p) ==
    LET head == SubSeq(p, 1, LastIndex(p, "/"))
    IN  IF head # <<>> /\ \E i \in 1..Len(head) : head[i] # "/"
        THEN RStripSlash(head)
        ELSE head

\* os.path.join(a, b)
PathJoin(a, b) ==
    IF IsAbs(b) THEN b
    ELSE IF a = <<>> \/ a[Len(a)] = "/" THEN a \o b
    ELSE a \o <<"/">> \o b

\* p.split('/'): the components between slashes, empty ones included
RECURSIVE SplitSlash(_)
SplitSlash(p) ==
    LET i == FirstIndex(p, "/")
    IN  IF i = 0 THEN <<p>>
        ELSE <<SubSeq(p, 1, i - 1)>> \o SplitSlash(SubSeq(p, i + 1, Len(p)))

\* the loop of os.path.normpath over the components: drops "" and ".",
\* lets ".." cancel the component before it
RECURSIVE NormComps(_, _, _)
NormComps(comps, acc, absolute) ==
    IF comps = <<>> THEN acc
    ELSE LET c == Head(comps)
             rest == Tail(comps)
         IN  IF c = <<>> \/ c = <<".">> THEN NormComps(rest, acc, absolute)
             ELSE IF c # <<".", ".">> THEN NormComps(rest, Append(acc, c), absolute)
             ELSE IF acc # <<>> /\ acc[Len(acc)] # <<".", ".">>
                  THEN NormComps(rest, SubSeq(acc, 1, Len(acc) - 1), absolute)
             ELSE IF acc = <<>> /\ absolute THEN NormComps(rest, acc, absolute)
             ELSE NormComps(rest, Append(acc, c), absolute)

RECURSIVE JoinSlash(_)
JoinSlash(comps) ==
    IF comps = <<>> THEN <<>>
    ELSE IF Len(comps) = 1 THEN comps[1]
    ELSE comps[1] \o <<"/">> \o JoinSlash(Tail(comps))

\* the leading slashes normpath keeps: none, one, or two when there are exactly two
InitialSlashes(p) ==
    IF ~IsAbs(p) THEN <<>>
    ELSE IF StartsWith(p, <<"/", "/">>) /\ ~StartsWith(p, <<"/", "/", "/">>) THEN <<"/", "/">>
    ELSE <<"/">>

\* path or '.'
OrDot(path) == IF path = <<>> THEN <<".">> ELSE path

\* os.path.normpath
Normpath(p) ==
    OrDot(InitialSlashes(p) \o JoinSlash(NormComps(SplitSlash(p), <<>>, IsAbs(p))))


(***************************************************************************)
(* State.                                                                  *)
(***************************************************************************)
VARIABLES
    build,              \* "package" (xbrl_taxonomy_parser) or "script" (xbrl-taxonomy-parser.py)
    fs,                 \* the local filesystem: path -> document
    phase,              \* "new", "running" (inside parse()), "done" (parse() returned), "crashed" (parse() raised)
    stack,              \* the call stack of _parse_schema / _parse_linkbase frames
    processed_schemas,  \* self.processed_schemas
    concepts,           \* self.concepts, a dict in insertion order: [keys, val]
    linkbases,          \* self.linkbases: kind -> role -> network
    role_types,         \* self.role_types
    arcrole_types,      \* self.arcrole_types
    dimensions,         \* self.dimensions
    log,                \* the warning and error records the logger received: <<level, message, subject>>
    attempts,           \* path -> number of ET.parse calls made by _parse_schema
    linkbase_parses,    \* path -> number of ET.parse calls made by _parse_linkbase
    run,                \* 1 for the first parser object, 2 for the second
    first,              \* what the first parse() left, kept for comparison with the second
    reordered,          \* whether the second parse() reads the documents with their references reordered
    hash_seed,          \* the salt of str.__hash__ in this interpreter process (PYTHONHASHSEED)
    RESOLVED_PATHS,     \* utils.RESOLVED_PATHS: "<reference>|<base_dir>" -> path
    resolve_path_cache, \* the lru_cache of utils.resolve_path: arguments -> result
    map_url_cache,      \* the lru_cache of utils.map_url_to_local_path: arguments -> result
    resolved,           \* the last call of utils.resolve_path made by a caller: arguments and outcome
    calls,              \* the number of calls of utils.resolve_path made so far
    taxonomy_data,      \* XBRLTaxonomyWriter.taxonomy_data: the dictionary the writer was made for
    writer              \* a call of the writer: its status, call stack, loop and results

vars == <<build, fs, phase, stack, processed_schemas, concepts, linkbases, role_types,
          arcrole_types, dimensions, log, attempts, linkbase_parses, run, first, reordered,
          hash_seed, RESOLVED_PATHS, resolve_path_cache, map_url_cache, resolved, calls,
          taxonomy_data, writer>>

(***************************************************************************)
(* Python values.                                                          *)
(***************************************************************************)

\* None / an Optional value that is present
None == <<>>
Some(v) == <<v>>

\* the value of an Optional, or default when it is None
OrElse(opt, default) == IF opt # None THEN opt[1] ELSE default

\* a float, and a str kept apart from it (Python never equates "1" and 1.0)
PyFloat(n) == [t |-> "float", v |-> n]
PyStr(s) == [t |-> "str", v |-> s]

\* dict.get(k, default) on a dict without order, modelled as a function
Get(d, k, default) == IF k \in DOMAIN d THEN d[k] ELSE default

\* d[k] = v on a dict without order
Put(d, k, v) == [x \in (DOMAIN d) \cup {k} |-> IF x = k THEN v ELSE d[x]]

EmptyDict == <<>>

\* The characters of the modelled names, in code point order.
Alphabet == <<"#", "/", "A", "B", "C", "N", "X", "Y", "Z", "a", "b", "c", "l", "m", "t">>
CodePoint(c) == CHOOSE i \in 1..Len(Alphabet) : Alphabet[i] = c

\* x < y on two str
RECURSIVE StrLess(_, _)
StrLess(x, y) ==
    IF y = <<>> THEN FALSE
    ELSE IF x = <<>> THEN TRUE
    ELSE IF x[1] = y[1] THEN StrLess(Tail(x), Tail(y))
    ELSE CodePoint(x[1]) < CodePoint(y[1])

RECURSIVE Ascending(_)
Ascending(S) ==
    IF S = {} THEN <<>>
    ELSE <<CHOOSE x \in S : \A y \in S \ {x} : StrLess(x, y)>>
         \o Ascending(S \ {CHOOSE x \in S : \A y \in S \ {x} : StrLess(x, y)})

Reverse(seq) == [i \in 1..Len(seq) |-> seq[Len(seq) + 1 - i]]

\* The salts the model distinguishes.  A set of str iterates in the order of
\* the salted hashes of its members, which is fixed within one interpreter
\* process and changes from one process to the next: under salt 0 the model
\* iterates a set in ascending order, under salt 1 in descending order.
HashSeeds == {0, 1}

\* list(S) on a set of str
ListOfSet(S) == IF hash_seed = 0 THEN Ascending(S) ELSE Reverse(Ascending(S))

\* a dict whose iteration order the code depends on: keys in insertion order
EmptyOrdered == [keys |-> <<>>, val |-> <<>>]
Has(d, k) == k \in DOMAIN d.val
OrderedPut(d, k, v) ==
    [keys |-> IF Has(d, k) THEN d.keys ELSE Append(d.keys, k),
     val |-> Put(d.val, k, v)]

(***************************************************************************)
(* The filesystem and the documents in it.                                 *)
(***************************************************************************)

\* self.base_dir and self.taxonomy_entry
BaseDir == <<"/", "t">>
Entry == <<"/", "t", "/", "a">>

\* os.path.exists
Exists(path) == path \in DOMAIN fs

\* ET.parse succeeds on a well-formed document and raises ParseError otherwise
WellFormed(path) == fs[path].wf

(***************************************************************************)
(* The path resolver.                                                      *)
(***************************************************************************)
HttpPrefix == <<"h", "t", "t", "p", ":", "/", "/">>
HttpsPrefix == <<"h", "t", "t", "p", "s", ":", "/", "/">>

\* reference_path.startswith(('http://', 'https://'))
IsUrl(ref) == StartsWith(ref, HttpPrefix) \/ StartsWith(ref, HttpsPrefix)

\* url_patterns of the script's _map_url_to_local_path, in dict order
ScriptUrlPatterns ==
    << [prefix |-> <<"h", "t", "t", "p", ":", "/", "/", "w", "w", "w", ".", "x", "b", "r", "l",
                     ".", "o", "r", "g", "/">>,
        dir |-> PathJoin(BaseDir, <<"x", "b", "r", "l">>)],
       [prefix |-> <<"h", "t", "t", "p", ":", "/", "/", "t", "a", "x", "o", "n", "o", "m", "i",
                     "e", "s", ".", "x", "b", "r", "l", ".", "u", "s", "/">>,
        dir |-> PathJoin(BaseDir, <<"u", "s">>)] >>

\* the script's _map_url_to_local_path: the first prefix in dict order that
\* the url starts with; None when there is none
RECURSIVE MapUrlFrom(_, _, _)
MapUrlFrom(url, patterns, k) ==
    IF k > Len(patterns) THEN None
    ELSE IF StartsWith(url, patterns[k].prefix)
         THEN Some(PathJoin(patterns[k].dir, SubSeq(url, Len(patterns[k].prefix) + 1, Len(url))))
         ELSE MapUrlFrom(url, patterns, k + 1)

ScriptMapUrl(url) == MapUrlFrom(url, ScriptUrlPatterns, 1)

\* the script's _resolve_path
ScriptResolvePath(reference_path, base_dir) ==
    IF IsUrl(reference_path) THEN OrElse(ScriptMapUrl(reference_path), reference_path)
    ELSE IF ~IsAbs(reference_path) THEN Normpath(PathJoin(base_dir, reference_path))
    ELSE Normpath(reference_path)

\* the warning the script's _resolve_path logs itself for a url it cannot map
ScriptResolveLog(reference_path) ==
    IF IsUrl(reference_path) /\ ScriptMapUrl(reference_path) = None
    THEN << <<"warning", "Cannot resolve URL to local path", reference_path>> >>
    ELSE <<>>

\* self._resolve_path(reference_path, base_dir): the path returned, or the
\* exception raised.  The package's _resolve_path hands self.url_mappings, a
\* dict, to utils.resolve_path, which is wrapped in functools.lru_cache:
\* building the cache key hashes the arguments and raises TypeError
\* (unhashable type: 'dict') before the body of resolve_path runs.
ResolvePath(reference_path, base_dir) ==
    IF build = "package"
    THEN [ok |-> FALSE, exc |-> "TypeError", path |-> <<>>]
    ELSE [ok |-> TRUE, exc |-> "", path |-> ScriptResolvePath(reference_path, base_dir)]

\* what the resolver itself logs during the call
ResolveLog(reference_path) ==
    IF build = "package" THEN <<>> ELSE ScriptResolveLog(reference_path)

(***************************************************************************)
(* XLink href -> concept id.  The hrefs of the modelled documents are      *)
(* relative references, never URLs.                                        *)
(***************************************************************************)

\* the namespace the loop over self.concepts.values() ends with: that of the
\* first concept, in dict order, whose sourceFile contains schema_path
KnownNamespace(cs, schema_path) ==
    LET hits == {k \in 1..Len(cs.keys) : InStr(schema_path, cs.val[cs.keys[k]].sourceFile)}
    IN  IF hits = {} THEN <<>>
        ELSE cs.val[cs.keys[CHOOSE k \in hits : \A j \in hits : k <= j]].namespace

\* the else branch: read targetNamespace from the document the href names,
\* resolved against the directory of the entry point; every exception is
\* swallowed
TargetNamespaceAt(r) ==
    IF ~r.ok THEN <<>>
    ELSE IF ~Exists(r.path) THEN <<>>
    ELSE IF ~WellFormed(r.path) THEN <<>>
    ELSE fs[r.path].ns

NamespaceFromSchema(schema_path) == TargetNamespaceAt(ResolvePath(schema_path, Dirname(Entry)))

\* if namespace: return f"{namespace}#{fragment}"; otherwise None
QualifiedOrNone(namespace, fragment) ==
    IF namespace # <<>> THEN Some(ConceptId(namespace, fragment)) ELSE None

\* the namespace found among the known concepts, or else the one read from
\* the schema document
NamespaceOfHref(known, schema_path) ==
    IF known # <<>> THEN known ELSE NamespaceFromSchema(schema_path)

\* _extract_concept_id_from_href: None, or Some(concept id)
ExtractConceptIdFromHref(cs, href) ==
    IF FirstIndex(href, "#") = 0 THEN None
    ELSE QualifiedOrNone(
             NamespaceOfHref(KnownNamespace(cs, SubSeq(href, 1, FirstIndex(href, "#") - 1)),
                             SubSeq(href, 1, FirstIndex(href, "#") - 1)),
             SubSeq(href, FirstIndex(href, "#") + 1, Len(href)))

\* the loop over link.findall('./link:loc') that fills concept_locs
\* if concept_id: concept_locs[label] = concept_id
PutLoc(acc, label, concept_id) ==
    IF concept_id # None THEN Put(acc, label, concept_id[1]) ELSE acc

RECURSIVE ConceptLocs(_, _, _)
ConceptLocs(cs, locs, acc) ==
    IF locs = <<>> THEN acc
    ELSE ConceptLocs(cs, Tail(locs),
                     IF Head(locs).href # <<>> /\ Head(locs).label # ""
                     THEN PutLoc(acc, Head(locs).label,
                                 ExtractConceptIdFromHref(cs, Head(locs).href))
                     ELSE acc)

\* root.findall('.//link:<kind>'): the extended links of one kind, in document order
LinksOfKind(doc, kind) == SelectSeq(doc.links, LAMBDA l : l.kind = kind)


\* a loop over a sequence, in order
RECURSIVE FoldLeft(_, _, _)
FoldLeft(Op(_, _), acc, seq) ==
    IF seq = <<>> THEN acc ELSE FoldLeft(Op, Op(acc, Head(seq)), Tail(seq))

(***************************************************************************)
(* The handlers of one linkbase work on s = [concepts, linkbases,          *)
(* dimensions, err]: the three dictionaries they change, and the exception *)
(* raised so far ("" for none).  A raised exception ends every loop: what  *)
(* was stored before it stays stored.                                      *)
(***************************************************************************)

\* NAMESPACES['xml'] is defined in utils.py and missing from the script's
\* NAMESPACES, where the lookup raises KeyError
HasXmlNamespace == build = "package"

LabelRoleDefault == "http://www.xbrl.org/2003/role/label"
ReferenceRoleDefault == "http://www.xbrl.org/2003/role/reference"

\* the body of the loop over the label resources an arc points to
StoreLabel(s, concept_id, label) ==
    IF s.err # "" THEN s
    ELSE IF ~HasXmlNamespace THEN [s EXCEPT !.err = "KeyError"]
    ELSE IF ~Has(s.concepts, concept_id) THEN s
    ELSE LET label_role == IF label.role = "" THEN LabelRoleDefault ELSE label.role
             lang == IF label.lang = "" THEN "en" ELSE label.lang
             c == s.concepts.val[concept_id]
             by_role == Get(c.labels, lang, EmptyDict)
         IN  [s EXCEPT !.concepts = OrderedPut(@, concept_id,
                 [c EXCEPT !.labels = Put(@, lang, Put(by_role, label_role, label.text))])]

\* link.findall("./link:label[@xlink:label='<to>']"): the resources with that
\* label, in document order
ResourcesLabelled(link, xlink_to) == SelectSeq(link.resources, LAMBDA r : r.label = xlink_to)

\* the body of the loop over the labelArc elements of one labelLink
LabelArc(s, link, concept_locs, arc) ==
    IF s.err # "" \/ arc.from \notin DOMAIN concept_locs THEN s
    ELSE FoldLeft(LAMBDA acc, label : StoreLabel(acc, concept_locs[arc.from], label),
                  s, ResourcesLabelled(link, arc.to))

\* the loop over link.findall('./link:labelArc')
LabelArcs(s, link, concept_locs) ==
    FoldLeft(LAMBDA acc, arc : LabelArc(acc, link, concept_locs, arc), s, link.arcs)

\* the body of the loop over the labelLink elements
LabelLink(s, link) ==
    IF s.err # "" THEN s
    ELSE LabelArcs(s, link, ConceptLocs(s.concepts, link.locs, EmptyDict))

\* _process_label_links
ProcessLabelLinksOn(s, doc) == FoldLeft(LabelLink, s, LinksOfKind(doc, "labelLink"))

\* the body of the loop over the reference resources an arc points to
StoreReference(s, concept_id, reference) ==
    IF s.err # "" \/ ~Has(s.concepts, concept_id) THEN s
    ELSE LET reference_role == IF reference.role = "" THEN ReferenceRoleDefault
                               ELSE reference.role
             c == s.concepts.val[concept_id]
             sofar == Get(c.references, reference_role, <<>>)
         IN  [s EXCEPT !.concepts = OrderedPut(@, concept_id,
                 [c EXCEPT !.references = Put(@, reference_role, Append(sofar, reference.parts))])]

ReferenceArc(s, link, concept_locs, arc) ==
    IF s.err # "" \/ arc.from \notin DOMAIN concept_locs THEN s
    ELSE FoldLeft(LAMBDA acc, r : StoreReference(acc, concept_locs[arc.from], r),
                  s, ResourcesLabelled(link, arc.to))

\* the loop over link.findall('./link:referenceArc')
ReferenceArcs(s, link, concept_locs) ==
    FoldLeft(LAMBDA acc, arc : ReferenceArc(acc, link, concept_locs, arc), s, link.arcs)

\* the body of the loop over the referenceLink elements
ReferenceLink(s, link) ==
    IF s.err # "" THEN s
    ELSE ReferenceArcs(s, link, ConceptLocs(s.concepts, link.locs, EmptyDict))

\* _process_reference_links
ProcessReferenceLinksOn(s, doc) == FoldLeft(ReferenceLink, s, LinksOfKind(doc, "referenceLink"))


\* float(str) on the attribute values the modelled documents use: the
\* number, or None for the ValueError of a string that is no number
ParseFloat(str) ==
    CASE str \in {"1", "1.0"} -> Some(1)
      [] str \in {"2", "2.0"} -> Some(2)
      [] str \in {"3", "3.0"} -> Some(3)
      [] str \in {"-1", "-1.0"} -> Some(-1)
      [] OTHER -> None

\* the loop over extra_attrs: the attributes present with a non-empty value
AdditionalAttrs(arc, extra_attrs) ==
    [a \in {x \in extra_attrs : Get(arc.attrs, x, "") # ""} |-> arc.attrs[a]]

\* the relationship dict of one arc, after relationship.update(additional_attrs)
Relationship(child_id, order, preferred_label, additional_attrs) ==
    [k \in {"to", "order", "preferredLabel"} \cup DOMAIN additional_attrs |->
        IF k \in DOMAIN additional_attrs THEN PyStr(additional_attrs[k])
        ELSE IF k = "to" THEN child_id
        ELSE IF k = "order" THEN PyFloat(order)
        ELSE preferred_label]

\* the body of the loop over the arcs of one link; acc = [rels, err]
RelationshipArc(acc, concept_locs, extra_attrs, arc) ==
    IF acc.err # "" THEN acc
    ELSE IF arc.from \notin DOMAIN concept_locs \/ arc.to \notin DOMAIN concept_locs THEN acc
    ELSE LET parent_id == concept_locs[arc.from]
             child_id == concept_locs[arc.to]
             order == ParseFloat(Get(arc.attrs, "order", "1"))
         IN  IF order = None THEN [acc EXCEPT !.err = "ValueError"]
             ELSE [acc EXCEPT !.rels = Put(@, parent_id,
                      Append(Get(@, parent_id, <<>>),
                             Relationship(child_id, order[1],
                                          Get(arc.attrs, "preferredLabel", ""),
                                          AdditionalAttrs(arc, extra_attrs))))]

\* one step of sorted(children, key=order): x goes behind the elements whose
\* order is not greater (the sort is stable)
InsertByOrder(sorted, x) ==
    LET k == Cardinality({i \in 1..Len(sorted) : sorted[i].order.v <= x.order.v})
    IN  SubSeq(sorted, 1, k) \o <<x>> \o SubSeq(sorted, k + 1, Len(sorted))

\* sorted(children, key=lambda x: x["order"])
SortedByOrder(children) == FoldLeft(InsertByOrder, <<>>, children)

\* the bucket after .extend(sorted_children)
ExtendBucket(bucket, sorted_children) == bucket \o sorted_children

\* the loop over relationships.items(): parents that are known concepts get
\* their sorted children appended to the bucket of the link's role
StoreRelationships(cs, relationship_type, link_role, rels) ==
    [cs EXCEPT !.val = [id \in DOMAIN cs.val |->
        IF id \in DOMAIN rels
        THEN [cs.val[id] EXCEPT ![relationship_type] =
                 Put(@, link_role, ExtendBucket(Get(@, link_role, <<>>), SortedByOrder(rels[id])))]
        ELSE cs.val[id]]]

Range(f) == {f[x] : x \in DOMAIN f}

\* self.linkbases.setdefault(relationship_type, {}).setdefault(link_role, {...})
IndexNetwork(lbs, relationship_type, link_role, concept_locs, rels, linkbase_path) ==
    IF link_role \in DOMAIN Get(lbs, relationship_type, EmptyDict)
    THEN lbs
    ELSE Put(lbs, relationship_type,
             Put(Get(lbs, relationship_type, EmptyDict), link_role,
                     [concepts |-> ListOfSet(Range(concept_locs)),
                      relationships |-> rels,
                      sourceFile |-> linkbase_path]))

\* the loop over link.findall('./link:<kind>Arc') that fills relationships
RelationshipArcs(link, concept_locs, extra_attrs) ==
    FoldLeft(LAMBDA acc, arc : RelationshipArc(acc, concept_locs, extra_attrs, arc),
             [rels |-> EmptyDict, err |-> ""], link.arcs)

\* what follows the arc loop: the edges are stored and the network indexed,
\* unless the arc loop raised
StoreLink(s, link, relationship_type, concept_locs, built, linkbase_path) ==
    IF built.err # "" THEN [s EXCEPT !.err = built.err]
    ELSE [s EXCEPT
            !.concepts = StoreRelationships(@, relationship_type, link.role, built.rels),
            !.linkbases = IndexNetwork(@, relationship_type, link.role, concept_locs,
                                       built.rels, linkbase_path)]

\* one link, once its locators are resolved
LocatedLink(s, link, relationship_type, extra_attrs, linkbase_path, concept_locs) ==
    StoreLink(s, link, relationship_type, concept_locs,
              RelationshipArcs(link, concept_locs, extra_attrs), linkbase_path)

\* the body of the loop over the links of one kind
RelationshipLink(s, link, relationship_type, extra_attrs, linkbase_path) ==
    IF s.err # "" THEN s
    ELSE LocatedLink(s, link, relationship_type, extra_attrs, linkbase_path,
                     ConceptLocs(s.concepts, link.locs, EmptyDict))

\* _process_relationship_links
ProcessRelationshipLinks(s, doc, link_type, relationship_type, linkbase_path, extra_attrs) ==
    FoldLeft(LAMBDA acc, link : RelationshipLink(acc, link, relationship_type, extra_attrs,
                                                 linkbase_path),
             s, LinksOfKind(doc, link_type))


(***************************************************************************)
(* Dimensions.  A container of self.dimensions is [kind, elems]: kind says *)
(* whether the Python object is a set or a list, elems holds its members   *)
(* (insertion order, no duplicates for a set).                             *)
(***************************************************************************)
PySet(elems) == [kind |-> "set", elems |-> elems]
PyList(elems) == [kind |-> "list", elems |-> elems]

\* set.add(x)
SetAdd(c, x) ==
    IF \E i \in 1..Len(c.elems) : c.elems[i] = x THEN c ELSE PySet(Append(c.elems, x))

\* list(value)
ToList(c) == PyList(ListOfSet({c.elems[i] : i \in 1..Len(c.elems)}))

ArcroleAll == "http://xbrl.org/int/dim/arcrole/all"
ArcroleHypercubeDimension == "http://xbrl.org/int/dim/arcrole/hypercube-dimension"
ArcroleDimensionDomain == "http://xbrl.org/int/dim/arcrole/dimension-domain"
ArcroleDomainMember == "http://xbrl.org/int/dim/arcrole/domain-member"

\* the if/elif chain of _extract_dimensions: the relation kind of an arcrole,
\* "" for an arcrole that is none of the four
RelTypeOfArcrole(arcrole) ==
    IF arcrole = ArcroleDimensionDomain THEN "domain"
    ELSE IF arcrole = ArcroleDomainMember THEN "member"
    ELSE IF arcrole = ArcroleHypercubeDimension THEN "dimension"
    ELSE IF arcrole = ArcroleAll THEN "hypercube"
    ELSE ""

\* _add_dimension: [dims, err].  .add on a container that an earlier call
\* turned into a list raises AttributeError; what the call stored before
\* that stays.
AddDimension(dims, from_id, to_id, rel_type, link_role, source_file) ==
    LET d1 == IF from_id \in DOMAIN dims THEN dims
              ELSE Put(dims, from_id, [id |-> from_id, related |-> EmptyDict,
                                       roles |-> PySet(<<>>), sourceFile |-> None])
        n1 == d1[from_id]
        n2 == IF rel_type \in DOMAIN n1.related THEN n1
              ELSE [n1 EXCEPT !.related = Put(@, rel_type, PySet(<<>>))]
    IN  IF n2.related[rel_type].kind # "set"
        THEN [dims |-> Put(d1, from_id, n2), err |-> "AttributeError"]
        ELSE LET n3 == [n2 EXCEPT !.related = Put(@, rel_type, SetAdd(@[rel_type], to_id))]
             IN  IF n3.roles.kind # "set"
                 THEN [dims |-> Put(d1, from_id, n3), err |-> "AttributeError"]
                 ELSE LET n4 == [n3 EXCEPT
                                   !.roles = ToList(SetAdd(@, link_role)),
                                   !.related = [k \in DOMAIN @ |-> ToList(@[k])],
                                   !.sourceFile = Some(source_file)]
                      IN  [dims |-> Put(d1, from_id, n4), err |-> ""]

\* the handlers' dictionaries after a call of _add_dimension
Added(s, r) == [s EXCEPT !.dimensions = r.dims, !.err = r.err]

\* the body of the loop over the definitionArc elements of one link
DimensionArc(s, concept_locs, link_role, linkbase_path, arc) ==
    IF s.err # "" THEN s
    ELSE IF arc.from \notin DOMAIN concept_locs \/ arc.to \notin DOMAIN concept_locs THEN s
    ELSE IF RelTypeOfArcrole(arc.arcrole) = "" THEN s
    ELSE Added(s, AddDimension(s.dimensions, concept_locs[arc.from], concept_locs[arc.to],
                               RelTypeOfArcrole(arc.arcrole), link_role, linkbase_path))

\* the loop over link.findall('./link:definitionArc')
DimensionArcs(s, link, linkbase_path, concept_locs) ==
    FoldLeft(LAMBDA acc, arc : DimensionArc(acc, concept_locs, link.role, linkbase_path, arc),
             s, link.arcs)

\* the body of the loop over the definitionLink elements
DimensionLink(s, link, linkbase_path) ==
    IF s.err # "" THEN s
    ELSE DimensionArcs(s, link, linkbase_path, ConceptLocs(s.concepts, link.locs, EmptyDict))

\* _extract_dimensions
ExtractDimensions(s, doc, linkbase_path) ==
    FoldLeft(LAMBDA acc, link : DimensionLink(acc, link, linkbase_path),
             s, LinksOfKind(doc, "definitionLink"))

\* _process_presentation_links
ProcessPresentationLinksOn(s, doc, linkbase_path) ==
    ProcessRelationshipLinks(s, doc, "presentationLink", "presentation", linkbase_path, {})

\* _process_calculation_links
ProcessCalculationLinksOn(s, doc, linkbase_path) ==
    ProcessRelationshipLinks(s, doc, "calculationLink", "calculation", linkbase_path, {"weight"})

\* _process_definition_links: the definition edges, then _extract_dimensions
ProcessDefinitionLinksOn(s, doc, linkbase_path) ==
    ExtractDimensions(
        ProcessRelationshipLinks(s, doc, "definitionLink", "definition", linkbase_path,
                                 {"contextElement", "typedDomainRef", "targetRole"}),
        doc, linkbase_path)


(***************************************************************************)
(* The schema handlers.                                                    *)
(***************************************************************************)

\* element.get(name, default) on the attributes of an element, a sequence of
\* <<name, value>> in document order, name a sequence of parts
AttrGet(attrs, name, default) ==
    LET hits == {i \in 1..Len(attrs) : attrs[i][1] = name}
    IN  IF hits = {} THEN default ELSE attrs[CHOOSE i \in hits : TRUE][2]

\* 'periodType' in attrib_name / 'balance' in attrib_name.  An attribute name
\* is spelled as ElementTree spells it, "{namespace}local" for a qualified
\* name, written as the sequence of its parts: <<"{", namespace, "}", ...>>
\* and then the local name, itself cut where the fixtures need it.
PeriodTypeInName(attrib_name) == InStr(<<"periodType">>, attrib_name)
BalanceInName(attrib_name) == InStr(<<"balance">>, attrib_name)

\* the loop over element.attrib.items() that fills periodType and balance
CustomAttr(acc, attr) ==
    IF PeriodTypeInName(attr[1]) THEN [acc EXCEPT !.periodType = Some(attr[2])]
    ELSE IF BalanceInName(attr[1]) THEN [acc EXCEPT !.balance = Some(attr[2])]
    ELSE acc

\* concept_data of one element declaration (the inline customType, which no
\* other handler reads, is left out)
ConceptData(element, namespace, schema_path) ==
    FoldLeft(CustomAttr,
             [name |-> element.name,
              namespace |-> namespace,
              id |-> ConceptId(namespace, element.name),
              abstract |-> AttrGet(element.attrs, <<"abstract">>, "false"),
              nillable |-> AttrGet(element.attrs, <<"nillable">>, "false"),
              substitutionGroup |-> AttrGet(element.attrs, <<"substitutionGroup">>, ""),
              type |-> AttrGet(element.attrs, <<"type">>, ""),
              periodType |-> None,
              balance |-> None,
              sourceFile |-> schema_path,
              labels |-> EmptyDict,
              references |-> EmptyDict,
              presentation |-> EmptyDict,
              calculation |-> EmptyDict,
              definition |-> EmptyDict],
             element.attrs)

\* a store that files a concept under its bare name
AddConceptUnderName(cs, concept_id, concept_data) ==
    OrderedPut(cs, concept_data.name, concept_data)

\* self.concepts[concept_id] = concept_data
AddConcept(cs, concept_id, concept_data) == OrderedPut(cs, concept_id, concept_data)

\* _process_elements
ProcessElementsOn(cs, doc, namespace, schema_path) ==
    FoldLeft(LAMBDA acc, element :
                 IF element.name = <<>> THEN acc
                 ELSE AddConcept(acc, ConceptId(namespace, element.name),
                                 ConceptData(element, namespace, schema_path)),
             cs, doc.elements)

\* _process_role_types
ProcessRoleTypesOn(rts, doc, namespace) ==
    FoldLeft(LAMBDA acc, rt :
                 IF rt.id = "" \/ rt.roleURI = "" THEN acc
                 ELSE Put(acc, rt.roleURI,
                          [id |-> rt.id, roleURI |-> rt.roleURI, namespace |-> namespace,
                           usedOn |-> SelectSeq(rt.usedOn, LAMBDA u : u # ""),
                           definition |-> IF rt.definition = "" THEN None
                                          ELSE Some(rt.definition)]),
             rts, doc.roleTypes)

\* _process_arcrole_types
ProcessArcroleTypesOn(ats, doc, namespace) ==
    FoldLeft(LAMBDA acc, at :
                 IF at.id = "" \/ at.arcroleURI = "" THEN acc
                 ELSE Put(acc, at.arcroleURI,
                          [id |-> at.id, arcroleURI |-> at.arcroleURI, namespace |-> namespace,
                           usedOn |-> SelectSeq(at.usedOn, LAMBDA u : u # ""),
                           cycles |-> IF at.cyclesAllowed = "" THEN "none" ELSE at.cyclesAllowed,
                           definition |-> IF at.definition = "" THEN None
                                          ELSE Some(at.definition)]),
             ats, doc.arcroleTypes)


(***************************************************************************)
(* The call stack.  A frame is one activation of _parse_schema or of       *)
(* _parse_linkbase: [kind, path, pc, i], pc the statement it is at and i   *)
(* the index of the reference element its loop is at.                      *)
(***************************************************************************)
Frame(kind, path, pc, i) == [kind |-> kind, path |-> path, pc |-> pc, i |-> i]

Top == stack[Len(stack)]
Pop == SubSeq(stack, 1, Len(stack) - 1)
ReplaceTop(f) == [stack EXCEPT ![Len(stack)] = f]

\* where a _parse_schema frame continues: a loop that has run out of elements
\* gives way to the statement after it
Roll(f) ==
    LET doc == fs[f.path]
        f1 == IF f.pc = "imports" /\ f.i > Len(doc.imports)
              THEN [f EXCEPT !.pc = "includes", !.i = 1] ELSE f
        f2 == IF f1.pc = "includes" /\ f1.i > Len(doc.includes)
              THEN [f1 EXCEPT !.pc = "elements", !.i = 0] ELSE f1
    IN  IF f2.pc = "linkbases" /\ f2.i > Len(doc.linkbaseRefs)
        THEN [f2 EXCEPT !.pc = "return", !.i = 0] ELSE f2

InSchema(pc) == stack # <<>> /\ Top.kind = "schema" /\ Top.pc = pc
InLinkbase(pc) == stack # <<>> /\ Top.kind = "linkbase" /\ Top.pc = pc

storeVars == <<concepts, linkbases, role_types, arcrole_types, dimensions>>
utilsVars == <<RESOLVED_PATHS, resolve_path_cache, map_url_cache, resolved, calls>>
writerVars == <<taxonomy_data, writer>>
envVars == <<build, fs, run, first, reordered, hash_seed, utilsVars, writerVars>>

\* a guard that lets a schema whose parse failed be tried again
ProcessedAndParsed(schema_path) == schema_path \in processed_schemas /\ WellFormed(schema_path)

\* if schema_path in self.processed_schemas: return
AlreadyProcessed(schema_path) == schema_path \in processed_schemas

(***************************************************************************)
(* Actions.                                                                *)
(***************************************************************************)

\* parse(), up to its call of _parse_schema(self.taxonomy_entry)
Parse ==
    /\ phase = "new"
    /\ phase' = "running"
    /\ stack' = <<Frame("schema", Normpath(Entry), "enter", 0)>>
    /\ UNCHANGED <<processed_schemas, log, attempts, linkbase_parses>>
    /\ UNCHANGED storeVars
    /\ UNCHANGED envVars

\* _parse_schema, from its entry to the end of ET.parse
ParseSchema ==
    /\ InSchema("enter")
    /\ IF AlreadyProcessed(Top.path)
       THEN /\ stack' = Pop
            /\ UNCHANGED <<processed_schemas, attempts, log>>
       ELSE /\ processed_schemas' = processed_schemas \cup {Top.path}
            /\ attempts' = Put(attempts, Top.path, Get(attempts, Top.path, 0) + 1)
            /\ IF Exists(Top.path) /\ WellFormed(Top.path)
               THEN /\ stack' = ReplaceTop(Roll([Top EXCEPT !.pc = "imports", !.i = 1]))
                    /\ UNCHANGED log
               ELSE /\ stack' = Pop
                    /\ log' = Append(log, <<"error", "Error parsing schema", Top.path>>)
    /\ UNCHANGED <<phase, linkbase_parses>>
    /\ UNCHANGED storeVars
    /\ UNCHANGED envVars

\* one turn of a loop of _process_imports_and_includes.  An exception of the
\* resolver leaves _process_imports_and_includes and is caught by the
\* except clause of _parse_schema, which ends the work on this schema.
FollowRef(schema_location, r, next, missing) ==
    /\ IF schema_location = <<>>
       THEN /\ stack' = next
            /\ UNCHANGED log
       ELSE IF ~r.ok
       THEN /\ stack' = Pop
            /\ log' = Append(log, <<"error", "Error parsing schema", Top.path>>)
       ELSE IF Exists(r.path)
       THEN /\ stack' = Append(next, Frame("schema", r.path, "enter", 0))
            /\ log' = log \o ResolveLog(schema_location)
       ELSE /\ stack' = next
            /\ log' = log \o ResolveLog(schema_location) \o << <<"warning", missing, r.path>> >>
    /\ UNCHANGED <<phase, processed_schemas, attempts, linkbase_parses>>
    /\ UNCHANGED storeVars
    /\ UNCHANGED envVars

\* the stack once the loop of the top frame has moved to its next element
Advanced == ReplaceTop(Roll([Top EXCEPT !.i = @ + 1]))

\* the loop over root.findall('.//xs:import')
FollowImport ==
    /\ InSchema("imports")
    /\ FollowRef(fs[Top.path].imports[Top.i],
                 ResolvePath(fs[Top.path].imports[Top.i], Dirname(Top.path)),
                 Advanced, "Import schema not found")

\* the loop over root.findall('.//xs:include')
FollowInclude ==
    /\ InSchema("includes")
    /\ FollowRef(fs[Top.path].includes[Top.i],
                 ResolvePath(fs[Top.path].includes[Top.i], Dirname(Top.path)),
                 Advanced, "Include schema not found")

\* _process_elements
ProcessElements ==
    /\ InSchema("elements")
    /\ concepts' = ProcessElementsOn(concepts, fs[Top.path], fs[Top.path].ns, Top.path)
    /\ stack' = ReplaceTop([Top EXCEPT !.pc = "roles"])
    /\ UNCHANGED <<phase, processed_schemas, log, attempts, linkbase_parses>>
    /\ UNCHANGED <<linkbases, role_types, arcrole_types, dimensions>>
    /\ UNCHANGED envVars

\* _process_role_types
ProcessRoleTypes ==
    /\ InSchema("roles")
    /\ role_types' = ProcessRoleTypesOn(role_types, fs[Top.path], fs[Top.path].ns)
    /\ stack' = ReplaceTop([Top EXCEPT !.pc = "arcroles"])
    /\ UNCHANGED <<phase, processed_schemas, log, attempts, linkbase_parses>>
    /\ UNCHANGED <<concepts, linkbases, arcrole_types, dimensions>>
    /\ UNCHANGED envVars

\* _process_arcrole_types
ProcessArcroleTypes ==
    /\ InSchema("arcroles")
    /\ arcrole_types' = ProcessArcroleTypesOn(arcrole_types, fs[Top.path], fs[Top.path].ns)
    /\ stack' = ReplaceTop(Roll([Top EXCEPT !.pc = "linkbases", !.i = 1]))
    /\ UNCHANGED <<phase, processed_schemas, log, attempts, linkbase_parses>>
    /\ UNCHANGED <<concepts, linkbases, role_types, dimensions>>
    /\ UNCHANGED envVars

\* if os.path.exists(linkbase_path): whether _process_linkbase_refs hands the
\* path to _parse_linkbase
HandsToParseLinkbase(linkbase_path) == Exists(linkbase_path)

\* one turn of the loop of _process_linkbase_refs
FollowLinkbaseRef(xlink_href, r, next) ==
    /\ IF xlink_href = <<>>
       THEN /\ stack' = next
            /\ UNCHANGED log
       ELSE IF ~r.ok
       THEN /\ stack' = Pop
            /\ log' = Append(log, <<"error", "Error parsing schema", Top.path>>)
       ELSE IF HandsToParseLinkbase(r.path)
       THEN /\ stack' = Append(next, Frame("linkbase", r.path, "parse", 0))
            /\ log' = log \o ResolveLog(xlink_href)
       ELSE /\ stack' = next
            /\ log' = log \o ResolveLog(xlink_href)
                          \o << <<"warning", "Linkbase file not found", r.path>> >>
    /\ UNCHANGED <<phase, processed_schemas, attempts, linkbase_parses>>
    /\ UNCHANGED storeVars
    /\ UNCHANGED envVars

\* the loop over root.findall('.//link:linkbaseRef')
ProcessLinkbaseRef ==
    /\ InSchema("linkbases")
    /\ FollowLinkbaseRef(fs[Top.path].linkbaseRefs[Top.i],
                         ResolvePath(fs[Top.path].linkbaseRefs[Top.i], Dirname(Top.path)),
                         Advanced)

\* the end of _parse_schema
ReturnFromSchema ==
    /\ InSchema("return")
    /\ stack' = Pop
    /\ UNCHANGED <<phase, processed_schemas, log, attempts, linkbase_parses>>
    /\ UNCHANGED storeVars
    /\ UNCHANGED envVars


\* the dictionaries the linkbase handlers work on
Handled == [concepts |-> concepts, linkbases |-> linkbases, dimensions |-> dimensions,
            err |-> ""]

\* _parse_linkbase, from its entry to the end of ET.parse
ParseLinkbase ==
    /\ InLinkbase("parse")
    /\ linkbase_parses' = Put(linkbase_parses, Top.path, Get(linkbase_parses, Top.path, 0) + 1)
    /\ IF WellFormed(Top.path)
       THEN /\ stack' = ReplaceTop([Top EXCEPT !.pc = "label"])
            /\ UNCHANGED log
       ELSE /\ stack' = Pop
            /\ log' = Append(log, <<"error", "Error parsing linkbase", Top.path>>)
    /\ UNCHANGED <<phase, processed_schemas, attempts>>
    /\ UNCHANGED storeVars
    /\ UNCHANGED envVars

\* one handler call of _parse_linkbase: what it stored stays; an exception
\* is caught by the except clause of _parse_linkbase, which ends the work on
\* this linkbase
LinkbaseStep(result, nextpc) ==
    /\ concepts' = result.concepts
    /\ linkbases' = result.linkbases
    /\ dimensions' = result.dimensions
    /\ IF result.err # ""
       THEN /\ stack' = Pop
            /\ log' = Append(log, <<"error", "Error parsing linkbase", Top.path>>)
       ELSE /\ stack' = IF nextpc = "return" THEN Pop ELSE ReplaceTop([Top EXCEPT !.pc = nextpc])
            /\ UNCHANGED log
    /\ UNCHANGED <<phase, processed_schemas, attempts, linkbase_parses>>
    /\ UNCHANGED <<role_types, arcrole_types>>
    /\ UNCHANGED envVars

ProcessLabelLinks ==
    /\ InLinkbase("label")
    /\ LinkbaseStep(ProcessLabelLinksOn(Handled, fs[Top.path]), "reference")

ProcessReferenceLinks ==
    /\ InLinkbase("reference")
    /\ LinkbaseStep(ProcessReferenceLinksOn(Handled, fs[Top.path]), "presentation")

ProcessPresentationLinks ==
    /\ InLinkbase("presentation")
    /\ LinkbaseStep(ProcessPresentationLinksOn(Handled, fs[Top.path], Top.path), "calculation")

ProcessCalculationLinks ==
    /\ InLinkbase("calculation")
    /\ LinkbaseStep(ProcessCalculationLinksOn(Handled, fs[Top.path], Top.path), "definition")

ProcessDefinitionLinks ==
    /\ InLinkbase("definition")
    /\ LinkbaseStep(ProcessDefinitionLinksOn(Handled, fs[Top.path], Top.path), "return")

\* json.dump raises TypeError on a set: _add_dimension leaves one behind when
\* it raises after creating the container of a new relation kind
JsonSerializable(dims) ==
    \A id \in DOMAIN dims :
        /\ dims[id].roles.kind = "list"
        /\ \A k \in DOMAIN dims[id].related : dims[id].related[k].kind = "list"

\* parse(), after _parse_schema has returned: the store is assembled and
\* saved; an exception of _save_json leaves parse()
Finish ==
    /\ phase = "running"
    /\ stack = <<>>
    /\ phase' = IF JsonSerializable(dimensions) THEN "done" ELSE "crashed"
    /\ UNCHANGED <<stack, processed_schemas, log, attempts, linkbase_parses>>
    /\ UNCHANGED storeVars
    /\ UNCHANGED envVars

NextParse ==
    \/ Parse
    \/ ParseSchema
    \/ FollowImport
    \/ FollowInclude
    \/ ProcessElements
    \/ ProcessRoleTypes
    \/ ProcessArcroleTypes
    \/ ProcessLinkbaseRef
    \/ ReturnFromSchema
    \/ ParseLinkbase
    \/ ProcessLabelLinks
    \/ ProcessReferenceLinks
    \/ ProcessPresentationLinks
    \/ ProcessCalculationLinks
    \/ ProcessDefinitionLinks
    \/ Finish


(***************************************************************************)
(* Documents.                                                              *)
(***************************************************************************)
SchemaDoc(ns, imports, includes, elements, linkbaseRefs) ==
    [wf |-> TRUE, ns |-> ns, imports |-> imports, includes |-> includes,
     elements |-> elements, roleTypes |-> <<>>, arcroleTypes |-> <<>>,
     linkbaseRefs |-> linkbaseRefs, links |-> <<>>]

LinkbaseDoc(links) ==
    [wf |-> TRUE, ns |-> <<>>, imports |-> <<>>, includes |-> <<>>,
     elements |-> <<>>, roleTypes |-> <<>>, arcroleTypes |-> <<>>,
     linkbaseRefs |-> <<>>, links |-> links]

\* a file with the text of doc that is not well-formed XML
Malformed(doc) == [doc EXCEPT !.wf = FALSE]

Element(name, attrs) == [name |-> name, attrs |-> attrs]
Loc(href, label) == [href |-> href, label |-> label]
Arc(from, to, attrs, arcrole) == [from |-> from, to |-> to, attrs |-> attrs, arcrole |-> arcrole]
Link(kind, role, locs, arcs, resources) ==
    [kind |-> kind, role |-> role, locs |-> locs, arcs |-> arcs, resources |-> resources]

\* all sequences over S of length at most n
RECURSIVE Seqs(_, _)
Seqs(S, n) ==
    IF n = 0 THEN {<<>>}
    ELSE LET shorter == Seqs(S, n - 1)
         IN  shorter \cup {Append(q, x) : q \in {r \in shorter : Len(r) = n - 1}, x \in S}

\* the file named name in the base directory
InBase(name) == PathJoin(BaseDir, name)

(***************************************************************************)
(* The filesystems that vary the reference graph: three schemas a (the     *)
(* entry point), b and c and a linkbase l, with every arrangement of at    *)
(* most MaxEdges reference elements among them; x names a file that does   *)
(* not exist.                                                              *)
(***************************************************************************)
MaxEdges == 3

EdgeKinds ==
    {[src |-> <<"a">>, kind |-> "import", dst |-> <<"b">>],
     [src |-> <<"a">>, kind |-> "import", dst |-> <<"c">>],
     [src |-> <<"a">>, kind |-> "import", dst |-> <<"x">>],
     [src |-> <<"b">>, kind |-> "import", dst |-> <<"c">>],
     [src |-> <<"b">>, kind |-> "import", dst |-> <<"b">>],
     [src |-> <<"c">>, kind |-> "import", dst |-> <<"b">>],
     [src |-> <<"c">>, kind |-> "import", dst |-> <<"a">>],
     [src |-> <<"b">>, kind |-> "include", dst |-> <<"c">>],
     [src |-> <<"a">>, kind |-> "linkbaseRef", dst |-> <<"l">>],
     [src |-> <<"c">>, kind |-> "linkbaseRef", dst |-> <<"l">>]}

\* the reference elements of one kind in schema src, in document order
RefsOf(edges, src, kind) ==
    LET mine == SelectSeq(edges, LAMBDA e : e.src = src /\ e.kind = kind)
    IN  [i \in 1..Len(mine) |-> mine[i].dst]

GraphSchema(edges, src, ns, name) ==
    SchemaDoc(ns, RefsOf(edges, src, "import"), RefsOf(edges, src, "include"),
              <<Element(name, <<>>)>>, RefsOf(edges, src, "linkbaseRef"))

\* l: one presentation link from a#X to b#Y
GraphLinkbase ==
    LinkbaseDoc(<<Link("presentationLink", "R",
                       <<Loc(<<"a", "#", "X">>, "p"), Loc(<<"b", "#", "Y">>, "y")>>,
                       <<Arc("p", "y", <<>>, "")>>, <<>>)>>)

GraphFilesystem(edges, c_wf) ==
    (InBase(<<"a">>) :> GraphSchema(edges, <<"a">>, <<"A">>, <<"X">>))
    @@ (InBase(<<"b">>) :> GraphSchema(edges, <<"b">>, <<"B">>, <<"Y">>))
    @@ (InBase(<<"c">>) :> IF c_wf THEN GraphSchema(edges, <<"c">>, <<"C">>, <<"Z">>)
                                   ELSE Malformed(GraphSchema(edges, <<"c">>, <<"C">>, <<"Z">>)))
    @@ (InBase(<<"l">>) :> GraphLinkbase)

GraphFilesystems ==
    {GraphFilesystem(edges, c_wf) : edges \in Seqs(EdgeKinds, MaxEdges), c_wf \in BOOLEAN}

(***************************************************************************)
(* The filesystems that vary the content of a linkbase: the entry point a  *)
(* (namespace A) declares X, Y and Z and refers to the linkbase l, whose   *)
(* extended links are every arrangement of at most MaxLinks of LinkKinds.  *)
(* N is a name no schema declares.                                         *)
(***************************************************************************)
MaxLinks == 2

LocX == Loc(<<"a", "#", "X">>, "x")
LocY == Loc(<<"a", "#", "Y">>, "y")
LocZ == Loc(<<"a", "#", "Z">>, "z")
LocN == Loc(<<"a", "#", "N">>, "n")

Resource(label, role, lang, text) ==
    [label |-> label, role |-> role, lang |-> lang, text |-> text, parts |-> <<text>>]

\* presentation links of role R from X: to Y at order 2, to Z at order 1, to
\* the undeclared N at order 3
PresentationY2 ==
    Link("presentationLink", "R", <<LocX, LocY>>, <<Arc("x", "y", [order |-> "2"], "")>>, <<>>)
PresentationZ1 ==
    Link("presentationLink", "R", <<LocX, LocZ>>, <<Arc("x", "z", [order |-> "1"], "")>>, <<>>)
PresentationN3 ==
    Link("presentationLink", "R", <<LocX, LocN>>, <<Arc("x", "n", [order |-> "3"], "")>>, <<>>)

\* a presentation link of role R from X to Y whose order is no number
PresentationBadOrder ==
    Link("presentationLink", "R", <<LocX, LocY>>, <<Arc("x", "y", [order |-> "first"], "")>>, <<>>)

\* a presentation link of role R from X with three arcs: to the label q, which
\* no locator of the link has; to m, whose locator href has no fragment; to Y
LocM == Loc(<<"a">>, "m")
PresentationDangling ==
    Link("presentationLink", "R", <<LocX, LocY, LocM>>,
         <<Arc("x", "q", [order |-> "1"], ""), Arc("x", "m", [order |-> "2"], ""),
           Arc("x", "y", [order |-> "3"], "")>>, <<>>)

\* a presentation link of role R from X whose other locators name no schema
\* of the taxonomy: #Y has no document part, and t#Z names a file t, which
\* does not exist, while t occurs in the path of every file of the base
\* directory
LocHere == Loc(<<"#", "Y">>, "y")
LocT == Loc(<<"t", "#", "Z">>, "z")
PresentationLoose ==
    Link("presentationLink", "R", <<LocX, LocHere, LocT>>,
         <<Arc("x", "y", [order |-> "1"], ""), Arc("x", "z", [order |-> "2"], "")>>, <<>>)

\* a calculation link of role R: X = -1 * Y
CalculationY ==
    Link("calculationLink", "R", <<LocX, LocY>>,
         <<Arc("x", "y", [order |-> "1", weight |-> "-1"], "")>>, <<>>)

\* a calculation link of role R whose arc has no order attribute: X = 1 * Z
CalculationZ ==
    Link("calculationLink", "R", <<LocX, LocZ>>, <<Arc("x", "z", [weight |-> "1"], "")>>, <<>>)

\* definition links of role D with two dimensional arcs leaving X: two of one
\* kind, and two of different kinds
DefinitionMembers ==
    Link("definitionLink", "D", <<LocX, LocY, LocZ>>,
         <<Arc("x", "y", [order |-> "1"], ArcroleDomainMember),
           Arc("x", "z", [order |-> "2"], ArcroleDomainMember)>>, <<>>)
DefinitionCube ==
    Link("definitionLink", "D", <<LocX, LocY, LocZ>>,
         <<Arc("x", "y", [order |-> "1"], ArcroleAll),
           Arc("x", "z", [order |-> "2"], ArcroleDomainMember)>>, <<>>)

\* label links with two resources of the same language and role for X, the
\* arcs in the order of the resources and in the opposite order
LabelsInOrder ==
    Link("labelLink", "L", <<LocX>>,
         <<Arc("x", "l1", <<>>, ""), Arc("x", "l2", <<>>, "")>>,
         <<Resource("l1", "", "en", "First"), Resource("l2", "", "en", "Second")>>)
LabelsOutOfOrder ==
    Link("labelLink", "L", <<LocX>>,
         <<Arc("x", "l2", <<>>, ""), Arc("x", "l1", <<>>, "")>>,
         <<Resource("l1", "", "en", "First"), Resource("l2", "", "en", "Second")>>)

\* a reference link with one reference for X
ReferenceX ==
    Link("referenceLink", "L", <<LocX>>, <<Arc("x", "r1", <<>>, "")>>,
         <<Resource("r1", "", "", "Section 1")>>)

LinkKinds ==
    {PresentationY2, PresentationZ1, PresentationN3, PresentationBadOrder,
     PresentationDangling, PresentationLoose, CalculationY, CalculationZ,
     DefinitionMembers, DefinitionCube, LabelsInOrder, LabelsOutOfOrder, ReferenceX}

Declarations == <<Element(<<"X">>, <<>>), Element(<<"Y">>, <<>>), Element(<<"Z">>, <<>>)>>
Abstract(name) == Element(name, << <<<<"abstract">>, "true">> >>)

RoleR ==
    [id |-> "r", roleURI |-> "R", usedOn |-> <<"link:presentationLink">>, definition |-> "role R"]
ArcroleQ ==
    [id |-> "q", arcroleURI |-> "Q", usedOn |-> <<"link:definitionArc">>, cyclesAllowed |-> "",
     definition |-> ""]

\* schema a in its four shapes:
\*   plain    X, Y, Z and a linkbaseRef to l
\*   nested   the same, then a second declaration of X, abstract
\*   overlap  a imports b and declares X abstract, Y and Z; b has the same
\*            targetNamespace, declares X, Y and Z and refers to l
\*   two      X, Y, Z and linkbaseRefs to l and to m
Shapes == {"plain", "nested", "overlap", "two"}

ContentEntry(shape) ==
    [SchemaDoc(<<"A">>,
               IF shape = "overlap" THEN <<<<"b">>>> ELSE <<>>,
               <<>>,
               CASE shape = "nested" -> Append(Declarations, Abstract(<<"X">>))
                 [] shape = "overlap" -> <<Abstract(<<"X">>)>> \o Tail(Declarations)
                 [] OTHER -> Declarations,
               CASE shape = "overlap" -> <<>>
                 [] shape = "two" -> <<<<"l">>, <<"m">>>>
                 [] OTHER -> <<<<"l">>>>)
     EXCEPT !.roleTypes = <<RoleR>>, !.arcroleTypes = <<ArcroleQ>>]

ContentFilesystem(shape, links) ==
    (InBase(<<"a">>) :> ContentEntry(shape))
    @@ (InBase(<<"b">>) :> SchemaDoc(<<"A">>, <<>>, <<>>, Declarations,
                                     IF shape = "overlap" THEN <<<<"l">>>> ELSE <<>>))
    @@ (InBase(<<"l">>) :> LinkbaseDoc(links))
    @@ (InBase(<<"m">>) :> LinkbaseDoc(<<PresentationZ1>>))

ContentFilesystems ==
    {ContentFilesystem(shape, links) : shape \in Shapes, links \in Seqs(LinkKinds, MaxLinks)}

\* The filesystems with a subdirectory d: the entry point a (namespace A,
\* declares X) imports d/c and refers to the linkbase d/l; d/c (namespace C,
\* declares Z) imports n, which is d/n (namespace N, declares N); d/b
\* (namespace B, declares Y) is imported by no schema; the link of d/l goes
\* from ../a#X to b#Y.  With decoy, the base directory holds a schema b of
\* its own (namespace C, declares Y).
InDir(name) == PathJoin(PathJoin(BaseDir, <<"d">>), name)

PresentationAcross ==
    Link("presentationLink", "R",
         <<Loc(<<".", ".", "/", "a", "#", "X">>, "x"), Loc(<<"b", "#", "Y">>, "y")>>,
         <<Arc("x", "y", [order |-> "1"], "")>>, <<>>)

DirectoryFilesystem(decoy) ==
    (InBase(<<"a">>) :> SchemaDoc(<<"A">>, <<<<"d", "/", "c">>>>, <<>>,
                                  <<Element(<<"X">>, <<>>)>>, <<<<"d", "/", "l">>>>))
    @@ (InDir(<<"c">>) :> SchemaDoc(<<"C">>, <<<<"n">>>>, <<>>, <<Element(<<"Z">>, <<>>)>>, <<>>))
    @@ (InDir(<<"n">>) :> SchemaDoc(<<"N">>, <<>>, <<>>, <<Element(<<"N">>, <<>>)>>, <<>>))
    @@ (InDir(<<"b">>) :> SchemaDoc(<<"B">>, <<>>, <<>>, <<Element(<<"Y">>, <<>>)>>, <<>>))
    @@ (InDir(<<"l">>) :> LinkbaseDoc(<<PresentationAcross>>))
    @@ (IF decoy
        THEN InBase(<<"b">>) :> SchemaDoc(<<"C">>, <<>>, <<>>, <<Element(<<"Y">>, <<>>)>>, <<>>)
        ELSE <<>>)

DirectoryFilesystems == {DirectoryFilesystem(decoy) : decoy \in BOOLEAN}

\* attribute names of an element declaration: of the XBRL instance namespace,
\* of another namespace with the same local name, and of names that only
\* contain periodType or balance
Qualified(namespace, local) == <<"{", namespace, "}">> \o local
Xbrli == "http://www.xbrl.org/2003/instance"
Ext == "urn:ext"
XbrliPeriodType == Qualified(Xbrli, <<"periodType">>)
XbrliBalance == Qualified(Xbrli, <<"balance">>)
ExtPeriodType == Qualified(Ext, <<"periodType">>)
ExtPeriodTypeHint == Qualified(Ext, <<"periodType", "Hint">>)
ExtUnbalanced == Qualified(Ext, <<"un", "balance", "d">>)

\* the attribute lists of the declaration of X
AttributeLists ==
    {<< <<XbrliPeriodType, "instant">>, <<XbrliBalance, "debit">> >>,
     << <<XbrliBalance, "credit">> >>,
     << <<ExtPeriodType, "duration">> >>,
     << <<ExtPeriodTypeHint, "hint">> >>,
     << <<XbrliPeriodType, "instant">>, <<ExtPeriodTypeHint, "hint">> >>,
     << <<ExtUnbalanced, "yes">> >>}

\* schema a declares X with the attributes attrs, and Y
AttributeFilesystem(attrs) ==
    InBase(<<"a">>) :> SchemaDoc(<<"A">>, <<>>, <<>>,
                                 <<Element(<<"X">>, attrs), Element(<<"Y">>, <<>>)>>, <<>>)

AttributeFilesystems == {AttributeFilesystem(attrs) : attrs \in AttributeLists}

\* definition links of role D from X: the arc to Y carries xbrldt:targetRole,
\* xbrldt:typedDomainRef and contextElement (in the second link the same
\* attributes without a namespace), the arc to Z carries none of them
XbrldtTargetRole == "{http://xbrl.org/2005/xbrldt}targetRole"
XbrldtTypedDomainRef == "{http://xbrl.org/2005/xbrldt}typedDomainRef"
DefinitionTargeted ==
    Link("definitionLink", "D", <<LocX, LocY, LocZ>>,
         <<Arc("x", "y", ("order" :> "1") @@ (XbrldtTargetRole :> "T")
                         @@ (XbrldtTypedDomainRef :> "a#Z") @@ ("contextElement" :> "segment"),
               ""),
           Arc("x", "z", [order |-> "2"], "")>>, <<>>)
DefinitionUnprefixed ==
    Link("definitionLink", "D", <<LocX, LocY, LocZ>>,
         <<Arc("x", "y", [order |-> "1", targetRole |-> "T", typedDomainRef |-> "a#Z",
                          contextElement |-> "scenario"], ""),
           Arc("x", "z", [order |-> "2"], "")>>, <<>>)

ArcFilesystems ==
    {ContentFilesystem("plain", <<link>>) : link \in {DefinitionTargeted, DefinitionUnprefixed}}

\* the documents with the import, include and linkbaseRef elements of every
\* schema in the opposite order
Reordered(files) ==
    [path \in DOMAIN files |->
        [files[path] EXCEPT !.imports = Reverse(@), !.includes = Reverse(@),
                            !.linkbaseRefs = Reverse(@)]]

(***************************************************************************)
(* Parser objects and runs.                                                *)
(***************************************************************************)

\* a parser object after __init__
NewParser ==
    /\ phase = "new"
    /\ stack = <<>>
    /\ processed_schemas = {}
    /\ concepts = EmptyOrdered
    /\ linkbases = EmptyDict
    /\ role_types = EmptyDict
    /\ arcrole_types = EmptyDict
    /\ dimensions = EmptyDict
    /\ log = <<>>
    /\ attempts = EmptyDict
    /\ linkbase_parses = EmptyDict

\* no writer has been made: no data, no call
IdleWriter ==
    [status |-> "idle", stack |-> <<>>, pending |-> <<>>, out |-> EmptyOrdered,
     hierarchy |-> None, structured |-> None]
NoWriter ==
    /\ taxonomy_data = EmptyDict
    /\ writer = IdleWriter

\* the module utils after its import: empty caches, no call made
NewUtils ==
    /\ RESOLVED_PATHS = EmptyDict
    /\ resolve_path_cache = EmptyDict
    /\ map_url_cache = EmptyDict
    /\ resolved = None
    /\ calls = 0

Init ==
    /\ NewUtils
    /\ NoWriter
    /\ build \in {"package", "script"}
    /\ hash_seed \in HashSeeds
    /\ fs \in GraphFilesystems \cup ContentFilesystems \cup DirectoryFilesystems
             \cup AttributeFilesystems \cup ArcFilesystems
    /\ run = 1
    /\ first = <<>>
    /\ reordered = FALSE
    /\ NewParser

\* what parse() returned
Store ==
    [concepts |-> concepts, linkbases |-> linkbases, role_types |-> role_types,
     arcrole_types |-> arcrole_types, dimensions |-> dimensions]

\* A second run: a new interpreter process (a new salt) makes a new parser
\* object for the same entry point and calls parse(), on the same files or
\* on the files with their reference elements reordered.
NewRun ==
    /\ run = 1
    /\ phase = "done"
    /\ run' = 2
    /\ first' = [store |-> Store, hash_seed |-> hash_seed]
    /\ hash_seed' \in HashSeeds
    /\ fs' \in {fs, Reordered(fs)}
    /\ reordered' = (fs' # fs)
    /\ phase' = "new"
    /\ stack' = <<>>
    /\ processed_schemas' = {}
    /\ concepts' = EmptyOrdered
    /\ linkbases' = EmptyDict
    /\ role_types' = EmptyDict
    /\ arcrole_types' = EmptyDict
    /\ dimensions' = EmptyDict
    /\ log' = <<>>
    /\ attempts' = EmptyDict
    /\ linkbase_parses' = EmptyDict
    /\ UNCHANGED build
    /\ UNCHANGED utilsVars
    /\ UNCHANGED writerVars

\* a caller that invokes _parse_schema(self.taxonomy_entry) itself
CallParseSchema ==
    /\ phase = "new"
    /\ stack = <<>>
    /\ processed_schemas = {}
    /\ stack' = <<Frame("schema", Normpath(Entry), "enter", 0)>>
    /\ UNCHANGED <<phase, processed_schemas, log, attempts, linkbase_parses>>
    /\ UNCHANGED storeVars
    /\ UNCHANGED envVars

\* a caller that invokes _parse_linkbase on a linkbase file itself, once per file
CallParseLinkbase ==
    /\ phase = "new"
    /\ stack = <<>>
    /\ processed_schemas # {}
    /\ \E path \in DOMAIN fs :
          /\ fs[path].wf
          /\ fs[path].ns = <<>>
          /\ path \notin DOMAIN linkbase_parses
          /\ stack' = <<Frame("linkbase", path, "parse", 0)>>
    /\ UNCHANGED <<phase, processed_schemas, log, attempts, linkbase_parses>>
    /\ UNCHANGED storeVars
    /\ UNCHANGED envVars

\* the handlers driven one call at a time
NextHandlers ==
    \/ CallParseSchema
    \/ CallParseLinkbase
    \/ ParseSchema
    \/ FollowImport
    \/ FollowInclude
    \/ ProcessElements
    \/ ProcessRoleTypes
    \/ ProcessArcroleTypes
    \/ ProcessLinkbaseRef
    \/ ReturnFromSchema
    \/ ParseLinkbase
    \/ ProcessLabelLinks
    \/ ProcessReferenceLinks
    \/ ProcessPresentationLinks
    \/ ProcessCalculationLinks
    \/ ProcessDefinitionLinks

\* parse() of one parser object
Spec == Init /\ [][NextParse]_vars

\* two runs of parse()
NextTwoRuns == NextParse \/ NewRun
SpecTwoRuns == Init /\ [][NextTwoRuns]_vars

\* the handlers called directly
SpecHandlers == Init /\ [][NextHandlers]_vars

(***************************************************************************)
(* Properties.                                                             *)
(***************************************************************************)
NetworkKinds == {"presentation", "calculation", "definition"}

FileA == InBase(<<"a">>)
FileB == InBase(<<"b">>)
FileC == InBase(<<"c">>)
FileL == InBase(<<"l">>)

\* whether ref is among the import elements of the schema at path
Imports(path, ref) == \E i \in 1..Len(fs[path].imports) : fs[path].imports[i] = ref

ConceptX == <<"A", "#", "X">>
ConceptY == <<"A", "#", "Y">>
ConceptZ == <<"A", "#", "Z">>
ConceptN == <<"A", "#", "N">>

\* the linkbase l of the filesystem consists of these extended links
LinkbaseHolds(links) == FileL \in DOMAIN fs /\ fs[FileL].links = links

\* the `to` ids of a list of edges, in order
Targets(edges) == [i \in 1..Len(edges) |-> edges[i].to]

\* the presentation edges of role R that the concept dictionary cs holds for
\* X, none when there is no such bucket
EdgesOfX(cs) ==
    IF ConceptX \in DOMAIN cs.val /\ "R" \in DOMAIN cs.val[ConceptX].presentation
    THEN cs.val[ConceptX].presentation["R"] ELSE <<>>

\* C1: in one parse() run every schema path gets at most one processing
\* attempt (one ET.parse, whether it succeeded or failed): a path that was
\* attempted is in processed_schemas, and so is the path of every
\* _parse_schema activation that is past its entry, which is where its
\* imports and includes are followed.
C1_OneAttemptPerSchema ==
    /\ \A p \in DOMAIN attempts : attempts[p] = 1 /\ p \in processed_schemas
    /\ \A i \in 1..Len(stack) :
          (stack[i].kind = "schema" /\ stack[i].pc # "enter") => stack[i].path \in processed_schemas

\* parse() has returned; c, which is not well-formed, was reached from a and
\* from b, and both a and b had their imports followed
C1_FailedSchemaMetTwice ==
    /\ phase = "done"
    /\ build = "script"
    /\ {FileA, FileB, FileC} \subseteq DOMAIN fs
    /\ ~fs[FileC].wf
    /\ Imports(FileA, <<"c">>)
    /\ Imports(FileB, <<"c">>)
    /\ {FileA, FileB, FileC} \subseteq DOMAIN attempts
    /\ attempts[FileC] = 1

\* C2: in one parse() run no linkbase path is parsed more than once.
C2_NoLinkbaseParsedTwice ==
    \A p \in DOMAIN linkbase_parses : linkbase_parses[p] <= 1

\* parse() has returned, and the linkbase l that schema a names in two
\* linkbaseRef elements was parsed twice
C2_LinkbaseParsedTwice ==
    /\ phase = "done"
    /\ fs[FileA].linkbaseRefs = <<<<"l">>, <<"l">>>>
    /\ FileL \in DOMAIN linkbase_parses
    /\ linkbase_parses[FileL] = 2

\* C3: parse() ends by returning the store: it never ends by raising.
\* (Every run of parse() ends: a step calls _parse_schema or _parse_linkbase,
\* moves an activation on to its next statement or returns from it, and
\* _parse_schema goes past its entry once per path.)
C3_ParseReturnsTheStore == phase # "crashed"

\* the traversal has ended on a linkbase with an `all` arc and a
\* domain-member arc leaving X, and saving the store raised
C3_RaisedWhileSaving ==
    /\ phase = "crashed"
    /\ stack = <<>>
    /\ LinkbaseHolds(<<DefinitionCube>>)
    /\ ~JsonSerializable(dimensions)

\* what one activation still has to do: 2 per import or include left, 7 per
\* linkbaseRef left, 1 per statement left
FrameWork(f) ==
    LET doc == fs[f.path]
        refs(seq, i) == Len(seq) - i + 1
        links == 7 * Len(doc.linkbaseRefs)
    IN  CASE f.kind = "linkbase" ->
               (CASE f.pc = "parse" -> 6 [] f.pc = "label" -> 5 [] f.pc = "reference" -> 4
                  [] f.pc = "presentation" -> 3 [] f.pc = "calculation" -> 2 [] OTHER -> 1)
          [] f.pc = "enter" -> 1
          [] f.pc = "imports" -> 2 * (refs(doc.imports, f.i) + Len(doc.includes)) + links + 4
          [] f.pc = "includes" -> 2 * refs(doc.includes, f.i) + links + 4
          [] f.pc = "elements" -> links + 4
          [] f.pc = "roles" -> links + 3
          [] f.pc = "arcroles" -> links + 2
          [] f.pc = "linkbases" -> 7 * refs(doc.linkbaseRefs, f.i) + 1
          [] OTHER -> 1

\* more than the work of any one activation
SchemaWork ==
    1 + (CHOOSE w \in {FrameWork(Frame("schema", p, "imports", 1)) : p \in DOMAIN fs} :
            \A p \in DOMAIN fs : FrameWork(Frame("schema", p, "imports", 1)) <= w)

RECURSIVE StackWork(_)
StackWork(frames) ==
    IF frames = <<>> THEN 0 ELSE FrameWork(Head(frames)) + StackWork(Tail(frames))

\* the work parse() still has to do
Measure ==
    CASE phase = "new" -> SchemaWork * (Cardinality(DOMAIN fs) + 1)
      [] phase = "running" ->
            SchemaWork * Cardinality(DOMAIN fs \ processed_schemas) + StackWork(stack) + 1
      [] OTHER -> 0

\* Every step of parse() decreases Measure, a natural number: every run of
\* parse() ends, whatever cycles the imports and includes form.
EveryStepDecreasesMeasure == [][Measure' < Measure]_vars

\* the bucket concepts[id][kind][role]
Bucket(id, kind, role) == concepts.val[id][kind][role]

\* C4: in the final store every edge list concepts[p][kind][role] is sorted
\* non-decreasing by order.
C4_BucketsSortedByOrder ==
    phase = "done" =>
        \A id \in DOMAIN concepts.val : \A kind \in NetworkKinds :
            \A role \in DOMAIN concepts.val[id][kind] :
                \A i \in 1..(Len(Bucket(id, kind, role)) - 1) :
                    Bucket(id, kind, role)[i].order.v <= Bucket(id, kind, role)[i + 1].order.v

\* parse() has returned on a linkbase with two presentation links of role R,
\* X -> Y at order 2 and then X -> Z at order 1, and the bucket of X holds
\* Y before Z
C4_SecondLinkAppended ==
    /\ phase = "done"
    /\ LinkbaseHolds(<<PresentationY2, PresentationZ1>>)
    /\ Targets(EdgesOfX(concepts)) = <<ConceptY, ConceptZ>>

\* C5: in the final store the `to` of every edge is the id of a concept of
\* the concept dictionary.
C5_EdgesPointToConcepts ==
    phase = "done" =>
        \A id \in DOMAIN concepts.val : \A kind \in NetworkKinds :
            \A role \in DOMAIN concepts.val[id][kind] :
                \A i \in 1..Len(Bucket(id, kind, role)) :
                    Has(concepts, Bucket(id, kind, role)[i].to)

\* parse() has returned on a linkbase whose presentation link goes from X to
\* N, which no schema declares, and the bucket of X holds the edge to N
C5_EdgeToUndeclaredConcept ==
    /\ phase = "done"
    /\ LinkbaseHolds(<<PresentationN3>>)
    /\ Has(concepts, ConceptX)
    /\ ~Has(concepts, ConceptN)
    /\ Targets(EdgesOfX(concepts)) = <<ConceptN>>

\* the resources of link, by index, that an arc connects to the locator label from
Connected(link, from) ==
    {j \in 1..Len(link.resources) :
        \E i \in 1..Len(link.arcs) :
            link.arcs[i].from = from /\ link.arcs[i].to = link.resources[j].label}

\* the connected resources that have the language and role of resource j
SameKey(link, from, j) ==
    {k \in Connected(link, from) :
        /\ link.resources[k].lang = link.resources[j].lang
        /\ link.resources[k].role = link.resources[j].role}

\* labels[lang][role] of the concept, "" when there is none
StoredLabel(id, lang, role) ==
    IF Has(concepts, id)
    THEN Get(Get(concepts.val[id].labels, IF lang = "" THEN "en" ELSE lang, EmptyDict),
             IF role = "" THEN LabelRoleDefault ELSE role, "")
    ELSE ""

\* for the locators of link that resolve to a declared concept: the label
\* stored for a connected resource's language and role is the text of the
\* last connected resource, in document order, with that language and role
LaterResourceWins(link, concept_locs) ==
    \A from \in DOMAIN concept_locs :
        Has(concepts, concept_locs[from]) =>
            \A j \in Connected(link, from) :
                StoredLabel(concept_locs[from], link.resources[j].lang, link.resources[j].role)
                    = link.resources[CHOOSE k \in SameKey(link, from, j) :
                                         \A m \in SameKey(link, from, j) : m <= k].text

\* C6: once _parse_linkbase has returned from a linkbase that consists of
\* one label link, the text stored for a concept, language and label role is
\* the text of the resource that is later in document order.
C6_LaterLabelResourceWins ==
    \A path \in DOMAIN linkbase_parses :
        (/\ stack = <<>>
         /\ Len(fs[path].links) = 1
         /\ fs[path].links[1].kind = "labelLink")
        => LaterResourceWins(fs[path].links[1],
                             ConceptLocs(concepts, fs[path].links[1].locs, EmptyDict))

\* the packaged _parse_linkbase has returned from a label link whose arcs
\* name the later resource first, and the text stored is the earlier one's
C6_EarlierResourceStored ==
    /\ build = "package"
    /\ stack = <<>>
    /\ FileL \in DOMAIN linkbase_parses
    /\ LinkbaseHolds(<<LabelsOutOfOrder>>)
    /\ StoredLabel(ConceptX, "en", "") = "First"

\* the members of dimensions[from].related[kind], {} when there is no such entry
Related(from, kind) ==
    IF from \in DOMAIN dimensions /\ kind \in DOMAIN dimensions[from].related
    THEN {dimensions[from].related[kind].elems[i] :
             i \in 1..Len(dimensions[from].related[kind].elems)}
    ELSE {}

\* every dimensional arc of link whose ends resolve is classified
Classified(link, concept_locs) ==
    \A i \in 1..Len(link.arcs) :
        (/\ link.arcs[i].from \in DOMAIN concept_locs
         /\ link.arcs[i].to \in DOMAIN concept_locs
         /\ RelTypeOfArcrole(link.arcs[i].arcrole) # "")
        => concept_locs[link.arcs[i].to]
               \in Related(concept_locs[link.arcs[i].from], RelTypeOfArcrole(link.arcs[i].arcrole))

\* C7: in the final store, for every dimensional arc of a definition link
\* whose ends resolve, `to` is in dimensions[from].related[kind]; stated for
\* the linkbases that hold definition links only.
C7_DimensionalArcsClassified ==
    phase = "done" =>
        \A path \in DOMAIN linkbase_parses :
            (\A k \in 1..Len(fs[path].links) : fs[path].links[k].kind = "definitionLink")
            => \A k \in 1..Len(fs[path].links) :
                   Classified(fs[path].links[k],
                              ConceptLocs(concepts, fs[path].links[k].locs, EmptyDict))

\* parse() has returned on a definition link with two domain-member arcs
\* leaving X, to Y and to Z, and only Y is a member of X
C7_SecondMemberMissing ==
    /\ phase = "done"
    /\ LinkbaseHolds(<<DefinitionMembers>>)
    /\ FileL \in DOMAIN linkbase_parses
    /\ Related(ConceptX, "member") = {ConceptY}

\* C8: a second parse() of the same entry point on the same files returns a
\* store equal to the first in concepts, linkbases, role types, arcrole
\* types and dimensions.
C8_SecondRunSameStore ==
    (run = 2 /\ phase = "done" /\ ~reordered) => Store = first.store

\* the second run on the same files has returned under another salt, and its
\* store differs from the first in the network index only
C8_IndexInAnotherOrder ==
    /\ run = 2
    /\ phase = "done"
    /\ ~reordered
    /\ hash_seed # first.hash_seed
    /\ concepts = first.store.concepts
    /\ dimensions = first.store.dimensions
    /\ linkbases # first.store.linkbases

\* C9: with the import, include and linkbaseRef elements followed in another
\* order, parse() returns the same concepts (with their labels, references
\* and edges), network index and dimensions; stated for two runs under the
\* same hash salt.
C9_OrderOfReferencesIrrelevant ==
    (run = 2 /\ phase = "done" /\ reordered /\ hash_seed = first.hash_seed)
    => /\ concepts.val = first.store.concepts.val
       /\ linkbases = first.store.linkbases
       /\ dimensions = first.store.dimensions

\* the second run, with the linkbaseRef elements to l and m in the opposite
\* order and under the same salt, has returned with the edges of X in
\* another order
C9_EdgesInAnotherOrder ==
    /\ run = 2
    /\ phase = "done"
    /\ reordered
    /\ hash_seed = first.hash_seed
    /\ LinkbaseHolds(<<PresentationY2>>)
    /\ fs[FileA].linkbaseRefs = <<<<"m">>, <<"l">>>>
    /\ Targets(EdgesOfX(first.store.concepts)) = <<ConceptY, ConceptZ>>
    /\ Targets(EdgesOfX(concepts)) = <<ConceptZ, ConceptY>>

\* C10: _process_elements leaves every concept record that is already in the
\* concept dictionary unchanged.
C10_FirstWriteWins ==
    [][InSchema("elements") =>
          \A id \in DOMAIN concepts.val : concepts'.val[id] = concepts.val[id]]_vars

\* parse() has returned: b declared X and l gave it an edge, then a, which
\* imports b, declared X again, and the record of X is that of a without edges
C10_SecondDeclarationStored ==
    /\ phase = "done"
    /\ Imports(FileA, <<"b">>)
    /\ LinkbaseHolds(<<PresentationY2>>)
    /\ FileL \in DOMAIN linkbase_parses
    /\ Has(concepts, ConceptX)
    /\ concepts.val[ConceptX].sourceFile = FileA
    /\ concepts.val[ConceptX].abstract = "true"
    /\ concepts.val[ConceptX].presentation = EmptyDict

\* the file a reference in the schema at path names (the modelled references
\* are relative paths)
Referenced(path, ref) == Normpath(PathJoin(Dirname(path), ref))

\* the import and include elements of the schema at path, in document order
Dependencies(path) == fs[path].imports \o fs[path].includes

\* the number of import and include elements of the schema at path that name
\* the file target
ReferencesTo(path, target) ==
    Cardinality({i \in 1..Len(Dependencies(path)) :
                    Referenced(path, Dependencies(path)[i]) = target})

\* the number of warnings in the log that name target
WarningsNaming(target) ==
    Cardinality({i \in 1..Len(log) : log[i][1] = "warning" /\ log[i][3] = target})

\* the schema at path is well-formed and has an import or include of a file
\* that does not exist
HasUnresolvedImport(path) ==
    /\ path \in DOMAIN fs
    /\ WellFormed(path)
    /\ \E i \in 1..Len(Dependencies(path)) : ~Exists(Referenced(path, Dependencies(path)[i]))

\* every concept the schema at path declares is in the concept dictionary
OwnConceptsPresent(path) ==
    \A i \in 1..Len(fs[path].elements) :
        Has(concepts, ConceptId(fs[path].ns, fs[path].elements[i].name))

\* C11: parse() returns (it does not raise), and for a processed schema with
\* an import or include of a file that does not exist, one warning per such
\* reference is logged and every concept the schema declares itself is in
\* the final store.
C11_UnresolvedImportTolerated ==
    /\ phase # "crashed" \/ \A path \in DOMAIN attempts : ~HasUnresolvedImport(path)
    /\ phase = "done" =>
          \A path \in DOMAIN attempts :
              HasUnresolvedImport(path) =>
                  /\ OwnConceptsPresent(path)
                  /\ \A i \in 1..Len(Dependencies(path)) :
                        ~Exists(Referenced(path, Dependencies(path)[i])) =>
                            WarningsNaming(Referenced(path, Dependencies(path)[i]))
                                = ReferencesTo(path, Referenced(path, Dependencies(path)[i]))

\* the packaged parse() has returned: the entry point a imports x, which
\* does not exist; no warning was logged, the work on a was given up with an
\* error, and the concept X that a declares is not in the store
C11_ImporterLost ==
    /\ phase = "done"
    /\ build = "package"
    /\ HasUnresolvedImport(FileA)
    /\ Imports(FileA, <<"x">>)
    /\ WarningsNaming(InBase(<<"x">>)) = 0
    /\ log = << <<"error", "Error parsing schema", FileA>> >>
    /\ ~OwnConceptsPresent(FileA)

\* the schema at q is well-formed, was processed, and has an import or
\* include that names the file p
ReferencedBy(p, q) ==
    /\ q \in DOMAIN attempts
    /\ WellFormed(q)
    /\ ReferencesTo(q, p) > 0

\* the number of errors in the log that name path
ErrorsNaming(path) ==
    Cardinality({i \in 1..Len(log) : log[i][1] = "error" /\ log[i][3] = path})

\* the store holds nothing of the schema at path: none of the concepts it
\* declares, under its targetNamespace, has it as sourceFile
ContributesNothing(path) ==
    \A id \in DOMAIN concepts.val : concepts.val[id].sourceFile # path

\* every schema that exists and that the schema at q imports or includes was
\* attempted
DependenciesAttempted(q) ==
    \A i \in 1..Len(Dependencies(q)) :
        Exists(Referenced(q, Dependencies(q)[i]))
            => Referenced(q, Dependencies(q)[i]) \in DOMAIN attempts

\* C12: a schema that is not well-formed is abandoned at its parse: no
\* activation of _parse_schema gets past the parse on it, so that none of its
\* references is followed; and once parse() has returned, for such a schema
\* that a processed schema imports or includes, one error naming it is
\* logged, the store holds no concept of it, and the other imports and
\* includes of the schemas that referenced it were followed.
C12_MalformedSchemaAbandoned ==
    /\ \A i \in 1..Len(stack) :
          (stack[i].kind = "schema" /\ stack[i].pc # "enter") => WellFormed(stack[i].path)
    /\ phase = "done" =>
          \A p \in DOMAIN fs : \A q \in DOMAIN fs :
              (~WellFormed(p) /\ ReferencedBy(p, q)) =>
                  /\ ErrorsNaming(p) = 1
                  /\ ContributesNothing(p)
                  /\ DependenciesAttempted(q)

\* the packaged parse() has returned: the entry point a imports c, which is
\* not well-formed, and then b; no error names c, and b was never attempted
C12_ReferrerAbandoned ==
    /\ phase = "done"
    /\ build = "package"
    /\ FileC \in DOMAIN fs
    /\ ~WellFormed(FileC)
    /\ fs[FileA].imports = <<<<"c">>, <<"b">>>>
    /\ ErrorsNaming(FileC) = 0
    /\ ErrorsNaming(FileA) = 1
    /\ FileB \notin DOMAIN attempts

\* the relationship type of an extended link: "" for label and reference links
RelationshipTypeOf(link) ==
    CASE link.kind = "presentationLink" -> "presentation"
      [] link.kind = "calculationLink" -> "calculation"
      [] link.kind = "definitionLink" -> "definition"
      [] OTHER -> ""

\* the extended link is one whose arcs all carry a numeric order
ArcsWellFormed(link) ==
    \A i \in 1..Len(link.arcs) : ParseFloat(Get(link.arcs[i].attrs, "order", "1")) # None

\* the store holds an edge from parent to child in the bucket of the role
\* under the relationship type
EdgeStored(parent, type, role, child) ==
    /\ Has(concepts, parent)
    /\ role \in DOMAIN concepts.val[parent][type]
    /\ \E i \in 1..Len(concepts.val[parent][type][role]) :
          concepts.val[parent][type][role][i].to = child

\* every arc of the link whose ends are located, from a declared concept,
\* has its edge in the store
EdgesCommitted(link, concept_locs) ==
    \A i \in 1..Len(link.arcs) :
        (/\ link.arcs[i].from \in DOMAIN concept_locs
         /\ link.arcs[i].to \in DOMAIN concept_locs
         /\ Has(concepts, concept_locs[link.arcs[i].from]))
        => EdgeStored(concept_locs[link.arcs[i].from], RelationshipTypeOf(link), link.role,
                      concept_locs[link.arcs[i].to])

\* C13: once parse() has returned, every presentation, calculation and
\* definition link with well-formed arcs in a linkbase that was parsed has
\* its edges in the store, whatever happened to the other extended links of
\* that linkbase; stated for the entry points whose concepts are declared
\* once.
C13_OtherLinksStillProcessed ==
    (phase = "done" /\ fs[FileA].imports = <<>> /\ Len(fs[FileA].elements) <= 3) =>
        \A path \in DOMAIN linkbase_parses :
            \A k \in 1..Len(fs[path].links) :
                (RelationshipTypeOf(fs[path].links[k]) # "" /\ ArcsWellFormed(fs[path].links[k]))
                => EdgesCommitted(fs[path].links[k],
                                  ConceptLocs(concepts, fs[path].links[k].locs, EmptyDict))

\* parse() has returned on a linkbase that holds a presentation link whose
\* arc has order="first" and then a calculation link from X to Y: one error
\* is logged for the linkbase and X has no calculation edge
C13_LaterLinkLost ==
    /\ phase = "done"
    /\ LinkbaseHolds(<<PresentationBadOrder, CalculationY>>)
    /\ fs[FileA].linkbaseRefs = <<<<"l">>>>
    /\ FileL \in DOMAIN linkbase_parses
    /\ log = << <<"error", "Error parsing linkbase", FileL>> >>
    /\ Has(concepts, ConceptX)
    /\ concepts.val[ConceptX].calculation = EmptyDict

\* the locator table of link: label -> concept id
LocatorTable(link) == ConceptLocs(concepts, link.locs, EmptyDict)

\* an arc of link one of whose ends names no locator of the link
EndNotLocated(link, arc) ==
    \/ arc.from \notin DOMAIN LocatorTable(link)
    \/ link.kind \notin {"labelLink", "referenceLink"} /\ arc.to \notin DOMAIN LocatorTable(link)

\* an arc of link one of whose ends names a locator whose href is the id of
\* no concept of the concept dictionary
EndNotDeclared(link, arc) ==
    \/ arc.from \in DOMAIN LocatorTable(link) /\ ~Has(concepts, LocatorTable(link)[arc.from])
    \/ /\ link.kind \notin {"labelLink", "referenceLink"}
       /\ arc.to \in DOMAIN LocatorTable(link)
       /\ ~Has(concepts, LocatorTable(link)[arc.to])

Dangling(link, arc) == EndNotLocated(link, arc) \/ EndNotDeclared(link, arc)

\* doc without the arcs for which drop(link, arc) holds
Without(doc, drop(_, _)) ==
    [doc EXCEPT !.links =
        [k \in 1..Len(doc.links) |->
            [doc.links[k] EXCEPT !.arcs = SelectSeq(doc.links[k].arcs,
                                                    LAMBDA arc : ~drop(doc.links[k], arc))]]]

\* the five handlers of _parse_linkbase give the same result on doc and on
\* doc without the arcs for which drop holds, whenever one of them is about to run
SameWithout(drop(_, _)) ==
    /\ InLinkbase("label") =>
          ProcessLabelLinksOn(Handled, fs[Top.path])
              = ProcessLabelLinksOn(Handled, Without(fs[Top.path], drop))
    /\ InLinkbase("reference") =>
          ProcessReferenceLinksOn(Handled, fs[Top.path])
              = ProcessReferenceLinksOn(Handled, Without(fs[Top.path], drop))
    /\ InLinkbase("presentation") =>
          ProcessPresentationLinksOn(Handled, fs[Top.path], Top.path)
              = ProcessPresentationLinksOn(Handled, Without(fs[Top.path], drop), Top.path)
    /\ InLinkbase("calculation") =>
          ProcessCalculationLinksOn(Handled, fs[Top.path], Top.path)
              = ProcessCalculationLinksOn(Handled, Without(fs[Top.path], drop), Top.path)
    /\ InLinkbase("definition") =>
          ProcessDefinitionLinksOn(Handled, fs[Top.path], Top.path)
              = ProcessDefinitionLinksOn(Handled, Without(fs[Top.path], drop), Top.path)

\* C14: an arc whose from or to label is not in the locator table of its
\* extended link, or whose locator href is the id of no concept, is dropped
\* without an error and without a change of the store, and the other arcs of
\* the link are emitted: every handler leaves the store and the error state it
\* would leave if the linkbase did not hold these arcs.
C14_DanglingArcsDropped == SameWithout(Dangling)

\* the part of C14 about the labels that no locator of the link has
DanglingLabelsDropped == SameWithout(EndNotLocated)

\* the presentation handler has returned without an error on a link from X to
\* N, whose locator href names a#N while no schema declares N, and the
\* bucket of X holds the edge of that arc
C14_DanglingArcStored ==
    /\ InLinkbase("calculation")
    /\ LinkbaseHolds(<<PresentationN3>>)
    /\ Dangling(PresentationN3, PresentationN3.arcs[1])
    /\ log = <<>>
    /\ Targets(EdgesOfX(concepts)) = <<ConceptN>>

\* the presentation handler has returned without an error on a link whose
\* first two arcs name the label q, which no locator has, and the locator m,
\* whose href has no fragment: the bucket of X holds the third arc alone
DanglingLabelSkipped ==
    /\ InLinkbase("calculation")
    /\ LinkbaseHolds(<<PresentationDangling>>)
    /\ EndNotLocated(PresentationDangling, PresentationDangling.arcs[1])
    /\ EndNotLocated(PresentationDangling, PresentationDangling.arcs[2])
    /\ log = <<>>
    /\ Targets(EdgesOfX(concepts)) = <<ConceptY>>

(***************************************************************************)
(* utils.resolve_path and utils.map_url_to_local_path, called by a caller  *)
(* of the module with its own arguments.  A prefix table is a dict in      *)
(* insertion order: a sequence of [prefix, dir].                           *)
(***************************************************************************)

\* self.url_mappings of the packaged parser, in dict order
url_mappings ==
    << [prefix |-> <<"h", "t", "t", "p", ":", "/", "/", "w", "w", "w", ".", "x", "b", "r", "l", ".", "o", "r", "g", "/">>,
        dir |-> PathJoin(BaseDir, <<"x", "b", "r", "l">>)],
       [prefix |-> <<"h", "t", "t", "p", ":", "/", "/", "t", "a", "x", "o", "n", "o", "m", "i", "e", "s", ".", "x", "b", "r", "l", ".", "u", "s", "/">>,
        dir |-> PathJoin(BaseDir, <<"u", "s">>)],
       [prefix |-> <<"h", "t", "t", "p", "s", ":", "/", "/", "x", "b", "r", "l", ".", "f", "a", "s", "b", ".", "o", "r", "g", "/">>,
        dir |-> PathJoin(BaseDir, <<"f", "a", "s", "b">>)],
       [prefix |-> <<"h", "t", "t", "p", ":", "/", "/", "x", "b", "r", "l", ".", "f", "a", "s", "b", ".", "o", "r", "g", "/">>,
        dir |-> PathJoin(BaseDir, <<"f", "a", "s", "b">>)],
       [prefix |-> <<"h", "t", "t", "p", "s", ":", "/", "/", "x", "b", "r", "l", ".", "s", "e", "c", ".", "g", "o", "v", "/">>,
        dir |-> PathJoin(BaseDir, <<"s", "e", "c">>)],
       [prefix |-> <<"h", "t", "t", "p", ":", "/", "/", "x", "b", "r", "l", ".", "s", "e", "c", ".", "g", "o", "v", "/">>,
        dir |-> PathJoin(BaseDir, <<"s", "e", "c">>)] >>

\* os.path.sep
PathSep == "/"

\* str.replace(old, new) on single characters
Replace(s, old, new) == [i \in 1..Len(s) |-> IF s[i] = old THEN new ELSE s[i]]

\* os.path.exists(path): a file, or a directory on the way to one
PathExists(path) ==
    \/ Exists(path)
    \/ \E f \in DOMAIN fs : StartsWith(f, path \o <<"/">>)

\* the loop over url_mappings.items(): the first prefix, in dict order, that
\* the url starts with decides
RECURSIVE MapPrefix(_, _, _)
MapPrefix(url, mappings, k) ==
    IF k > Len(mappings) THEN None
    ELSE IF StartsWith(url, mappings[k].prefix)
         THEN Some(PathJoin(mappings[k].dir,
                            Replace(SubSeq(url, Len(mappings[k].prefix) + 1, Len(url)),
                                    "/", PathSep)))
         ELSE MapPrefix(url, mappings, k + 1)

\* url.split('://', 1)[1] of a url that starts with http:// or https://
UrlWithoutProtocol(url) ==
    IF StartsWith(url, HttpsPrefix) THEN SubSeq(url, Len(HttpsPrefix) + 1, Len(url))
    ELSE SubSeq(url, Len(HttpPrefix) + 1, Len(url))

Resources == <<"r", "e", "s", "o", "u", "r", "c", "e", "s">>
Http == <<"h", "t", "t", "p">>
Https == <<"h", "t", "t", "p", "s">>

\* repo_dir
RepoDir(base_taxonomy_dir) == PathJoin(base_taxonomy_dir, Resources)

\* os.path.join(repo_dir, protocol, url_without_protocol)
RepoPath(url, base_taxonomy_dir, protocol) ==
    PathJoin(PathJoin(RepoDir(base_taxonomy_dir), protocol), UrlWithoutProtocol(url))

\* the folder of the url's own protocol and the alternate one
Protocol(url) == IF StartsWith(url, HttpsPrefix) THEN Https ELSE Http
Alternate(url) == IF StartsWith(url, HttpsPrefix) THEN Http ELSE Https

\* the resources folder structure: the path under the url's own protocol,
\* or the alternate path when the own one is absent and the alternate exists
RepoLookup(url, base_taxonomy_dir) ==
    IF ~PathExists(RepoPath(url, base_taxonomy_dir, Protocol(url)))
       /\ PathExists(RepoPath(url, base_taxonomy_dir, Alternate(url)))
    THEN RepoPath(url, base_taxonomy_dir, Alternate(url))
    ELSE RepoPath(url, base_taxonomy_dir, Protocol(url))

\* the body of map_url_to_local_path
MapUrlToLocalPathBody(url, base_taxonomy_dir, mappings) ==
    IF MapPrefix(url, mappings, 1) # None THEN MapPrefix(url, mappings, 1)
    ELSE IF IsUrl(url) /\ PathExists(RepoDir(base_taxonomy_dir))
         THEN Some(RepoLookup(url, base_taxonomy_dir))
         ELSE None

\* map_url_to_local_path behind its lru_cache: [result, cache]
map_url_to_local_path(url, base_taxonomy_dir, mappings, cache) ==
    IF <<url, base_taxonomy_dir, mappings>> \in DOMAIN cache
    THEN [result |-> cache[<<url, base_taxonomy_dir, mappings>>], cache |-> cache]
    ELSE [result |-> MapUrlToLocalPathBody(url, base_taxonomy_dir, mappings),
          cache |-> Put(cache, <<url, base_taxonomy_dir, mappings>>,
                        MapUrlToLocalPathBody(url, base_taxonomy_dir, mappings))]

\* cache_key = f"{reference_path}|{base_dir}"
CacheKey(reference_path, base_dir) == reference_path \o <<"|">> \o base_dir

\* the body of resolve_path below the lookup in RESOLVED_PATHS, given what
\* map_url_to_local_path returned: the path
ResolvePathFresh(reference_path, base_dir, local_path) ==
    IF IsUrl(reference_path) THEN OrElse(local_path, reference_path)
    ELSE IF ~IsAbs(reference_path) THEN Normpath(PathJoin(base_dir, reference_path))
    ELSE Normpath(reference_path)

\* the body of resolve_path: [result, RESOLVED_PATHS, map_url_cache]
ResolvePathBody(reference_path, base_dir, base_taxonomy_dir, mappings, memo, mcache) ==
    IF CacheKey(reference_path, base_dir) \in DOMAIN memo
    THEN [result |-> memo[CacheKey(reference_path, base_dir)],
          RESOLVED_PATHS |-> memo, map_url_cache |-> mcache]
    ELSE IF IsUrl(reference_path)
         THEN [result |-> ResolvePathFresh(reference_path, base_dir,
                              map_url_to_local_path(reference_path, base_taxonomy_dir,
                                                    mappings, mcache).result),
               RESOLVED_PATHS |->
                   Put(memo, CacheKey(reference_path, base_dir),
                       ResolvePathFresh(reference_path, base_dir,
                           map_url_to_local_path(reference_path, base_taxonomy_dir,
                                                 mappings, mcache).result)),
               map_url_cache |-> map_url_to_local_path(reference_path, base_taxonomy_dir,
                                                       mappings, mcache).cache]
         ELSE [result |-> ResolvePathFresh(reference_path, base_dir, None),
               RESOLVED_PATHS |-> Put(memo, CacheKey(reference_path, base_dir),
                                      ResolvePathFresh(reference_path, base_dir, None)),
               map_url_cache |-> mcache]

\* what a call with empty caches returns on the filesystem as it is now
Unmemoized(reference_path, base_dir, base_taxonomy_dir, mappings) ==
    ResolvePathBody(reference_path, base_dir, base_taxonomy_dir, mappings,
                    EmptyDict, EmptyDict).result

\* the arguments of the modelled calls
RefHttp == HttpPrefix \o <<"h", "/", "p">>
RefHttps == HttpsPrefix \o <<"h", "/", "p">>
RefDeep == HttpPrefix \o <<"h", "/", "d", "/", "p">>
RefXbrl == url_mappings[1].prefix \o <<"p">>
RefRelative == <<"b">>
References == {RefHttp, RefHttps, RefDeep, RefXbrl, RefRelative}

Short == [prefix |-> HttpPrefix \o <<"h", "/">>, dir |-> PathJoin(BaseDir, <<"x">>)]
Long == [prefix |-> HttpPrefix \o <<"h", "/", "d", "/">>, dir |-> PathJoin(BaseDir, <<"y">>)]
PrefixTables == {<<>>, url_mappings, <<Short, Long>>, <<Long, Short>>}

OtherBase == <<"/", "u">>
BaseDirs == {BaseDir, OtherBase}
ReferencingDirs == {BaseDir, PathJoin(BaseDir, <<"d">>)}

\* the files of the resources folder structure: the two places of h/p and a
\* file q that is no place of any reference
HttpPlace == RepoPath(RefHttp, BaseDir, Http)
HttpsPlace == RepoPath(RefHttp, BaseDir, Https)
OtherPlace == PathJoin(PathJoin(PathJoin(RepoDir(BaseDir), Http), <<"h">>), <<"q">>)
Places == {HttpPlace, HttpsPlace, OtherPlace}

ResourceFile == SchemaDoc(<<"H">>, <<>>, <<>>, <<>>, <<>>)
ResourceFilesystems == {[f \in S |-> ResourceFile] : S \in SUBSET Places}

MaxCalls == 2

\* resolve_path(reference_path, base_dir, base_taxonomy_dir, url_mappings)
\* called with a prefix table that is a dict, as the annotation says and as
\* the parser does, or with a mapping that can be hashed.  The lru_cache
\* wrapper hashes the arguments first: a dict raises TypeError there.
CallResolvePath ==
    /\ calls < MaxCalls
    /\ calls' = calls + 1
    /\ \E reference_path \in References, base_dir \in ReferencingDirs,
          base_taxonomy_dir \in BaseDirs, mappings \in PrefixTables, hashable \in BOOLEAN :
          LET args == <<reference_path, base_dir, base_taxonomy_dir, mappings>>
              body == ResolvePathBody(reference_path, base_dir, base_taxonomy_dir, mappings,
                                      RESOLVED_PATHS, map_url_cache)
              call == [reference_path |-> reference_path, base_dir |-> base_dir,
                       base_taxonomy_dir |-> base_taxonomy_dir, url_mappings |-> mappings,
                       hashable |-> hashable]
          IN  IF ~hashable
              THEN /\ resolved' = Some([call |-> call, exc |-> "TypeError", result |-> <<>>])
                   /\ UNCHANGED <<RESOLVED_PATHS, resolve_path_cache, map_url_cache>>
              ELSE IF args \in DOMAIN resolve_path_cache
              THEN /\ resolved' = Some([call |-> call, exc |-> "",
                                        result |-> resolve_path_cache[args]])
                   /\ UNCHANGED <<RESOLVED_PATHS, resolve_path_cache, map_url_cache>>
              ELSE /\ resolved' = Some([call |-> call, exc |-> "", result |-> body.result])
                   /\ RESOLVED_PATHS' = body.RESOLVED_PATHS
                   /\ map_url_cache' = body.map_url_cache
                   /\ resolve_path_cache' = Put(resolve_path_cache, args, body.result)
    /\ UNCHANGED <<build, fs, run, first, reordered, hash_seed>>
    /\ UNCHANGED writerVars
    /\ UNCHANGED <<phase, stack, processed_schemas, log, attempts, linkbase_parses>>
    /\ UNCHANGED storeVars

\* clear_caches()
ClearCaches ==
    /\ resolve_path_cache # EmptyDict
    /\ RESOLVED_PATHS' = EmptyDict
    /\ resolve_path_cache' = EmptyDict
    /\ map_url_cache' = EmptyDict
    /\ UNCHANGED <<resolved, calls>>
    /\ UNCHANGED <<build, fs, run, first, reordered, hash_seed>>
    /\ UNCHANGED writerVars
    /\ UNCHANGED <<phase, stack, processed_schemas, log, attempts, linkbase_parses>>
    /\ UNCHANGED storeVars

\* between two calls a file is put into the resources folder structure
FileAppears ==
    /\ calls < MaxCalls
    /\ \E place \in Places \ DOMAIN fs : fs' = (place :> ResourceFile) @@ fs
    /\ UNCHANGED utilsVars
    /\ UNCHANGED <<build, run, first, reordered, hash_seed>>
    /\ UNCHANGED writerVars
    /\ UNCHANGED <<phase, stack, processed_schemas, log, attempts, linkbase_parses>>
    /\ UNCHANGED storeVars

InitResolver ==
    /\ NewUtils
    /\ NoWriter
    /\ build = "package"
    /\ hash_seed = 0
    /\ fs \in ResourceFilesystems
    /\ run = 1
    /\ first = <<>>
    /\ reordered = FALSE
    /\ NewParser

NextResolver ==
    \/ CallResolvePath
    \/ ClearCaches
    \/ FileAppears

\* the resolver called by itself
SpecResolver == InitResolver /\ [][NextResolver]_vars

\* the call c is about a url that no prefix of its table matches
NoPrefixMatches(c) ==
    IsUrl(c.reference_path) /\ MapPrefix(c.reference_path, c.url_mappings, 1) = None

\* the place of the url of c in the resources folder structure under its own
\* protocol, and under the alternate one
OwnPlace(c) == RepoPath(c.reference_path, c.base_taxonomy_dir, Protocol(c.reference_path))
AlternatePlace(c) == RepoPath(c.reference_path, c.base_taxonomy_dir, Alternate(c.reference_path))

\* the outcome r of a call whose url has only its alternate place is that place
FallbackChosen(r) ==
    (NoPrefixMatches(r.call) /\ ~PathExists(OwnPlace(r.call)) /\ PathExists(AlternatePlace(r.call)))
    => (r.exc = "" /\ r.result = AlternatePlace(r.call))

\* C15: every call of the resolver with an https:// (http://) reference that
\* matches no entry of the prefix table, made while the reference's place
\* under resources/https (resources/http) does not exist and its place under
\* the other protocol exists, returns the place under the other protocol.
C15_FallbackToOtherProtocol ==
    [][calls' = calls + 1 => FallbackChosen(resolved'[1])]_vars

\* the same for the calls whose prefix table can be hashed, made while the
\* caches are empty
FallbackWhenUnmemoized ==
    [][(calls' = calls + 1 /\ resolved'[1].call.hashable /\ resolve_path_cache = EmptyDict)
       => FallbackChosen(resolved'[1])]_vars

\* the resolver was called with https://h/p and the parser's prefix table, a
\* dict, while only resources/http/h/p existed: TypeError, no path returned
C15_FallbackNeverReached ==
    /\ resolved # None
    /\ DOMAIN fs = {HttpPlace}
    /\ resolved[1].call.reference_path = RefHttps
    /\ resolved[1].call.base_taxonomy_dir = BaseDir
    /\ resolved[1].call.url_mappings = url_mappings
    /\ ~resolved[1].call.hashable
    /\ NoPrefixMatches(resolved[1].call)
    /\ ~PathExists(OwnPlace(resolved[1].call))
    /\ AlternatePlace(resolved[1].call) = HttpPlace
    /\ resolved[1].exc = "TypeError"
    /\ resolved[1].result # HttpPlace

\* the resolver was called with https://h/p and an empty table that can be
\* hashed, with empty caches, while only resources/http/h/p existed, and
\* returned that path
FallbackTaken ==
    /\ resolved # None
    /\ calls = 1
    /\ DOMAIN fs = {HttpPlace}
    /\ resolved[1].call.reference_path = RefHttps
    /\ resolved[1].call.base_taxonomy_dir = BaseDir
    /\ resolved[1].call.hashable
    /\ resolved[1].exc = ""
    /\ resolved[1].result = HttpPlace

\* the entries of a prefix table, by index, whose prefix the url starts with
Matching(url, mappings) == {k \in 1..Len(mappings) : StartsWith(url, mappings[k].prefix)}

\* the matching entry with the longest prefix
LongestMatch(url, mappings) ==
    CHOOSE k \in Matching(url, mappings) :
        \A j \in Matching(url, mappings) : Len(mappings[j].prefix) <= Len(mappings[k].prefix)

\* the url with the prefix of entry k stripped, joined with its local directory
Mapped(url, mappings, k) ==
    PathJoin(mappings[k].dir, SubSeq(url, Len(mappings[k].prefix) + 1, Len(url)))

\* the outcome r of a call whose url matches entries of its prefix table is
\* the path that the longest of them gives
LongestPrefixUsed(r) ==
    (IsUrl(r.call.reference_path) /\ Matching(r.call.reference_path, r.call.url_mappings) # {})
    => /\ r.exc = ""
       /\ r.result = Mapped(r.call.reference_path, r.call.url_mappings,
                            LongestMatch(r.call.reference_path, r.call.url_mappings))

\* C16: every call of the resolver with an http(s) reference that starts
\* with one or several prefixes of the prefix table returns the rest of the
\* reference joined with the local directory of the longest matching prefix,
\* wherever the entries stand in the table.
C16_LongestPrefixWins ==
    [][calls' = calls + 1 => LongestPrefixUsed(resolved'[1])]_vars

\* what the loop does: the first matching entry, in the order of the table
FirstPrefixUsed(r) ==
    (IsUrl(r.call.reference_path) /\ Matching(r.call.reference_path, r.call.url_mappings) # {})
    => /\ r.exc = ""
       /\ r.result = Mapped(r.call.reference_path, r.call.url_mappings,
                            CHOOSE k \in Matching(r.call.reference_path, r.call.url_mappings) :
                                \A j \in Matching(r.call.reference_path, r.call.url_mappings) :
                                    k <= j)

FirstPrefixWhenUnmemoized ==
    [][(calls' = calls + 1 /\ resolved'[1].call.hashable /\ resolve_path_cache = EmptyDict)
       => FirstPrefixUsed(resolved'[1])]_vars

\* the resolver was called, with empty caches, with http://h/d/p and a table
\* that can be hashed and holds http://h/ -> /t/x before http://h/d/ -> /t/y:
\* it returned /t/x/d/p, the path of the shorter prefix
C16_ShorterPrefixUsed ==
    /\ resolved # None
    /\ calls = 1
    /\ resolved[1].call.reference_path = RefDeep
    /\ resolved[1].call.url_mappings = <<Short, Long>>
    /\ resolved[1].call.hashable
    /\ Matching(RefDeep, <<Short, Long>>) = {1, 2}
    /\ LongestMatch(RefDeep, <<Short, Long>>) = 2
    /\ resolved[1].exc = ""
    /\ resolved[1].result = <<"/", "t", "/", "x", "/", "d", "/", "p">>
    /\ resolved[1].result # Mapped(RefDeep, <<Short, Long>>, 2)

\* the url of the call c matches no prefix and has neither of its two places
\* in the resources folder structure
Unresolvable(c) ==
    /\ NoPrefixMatches(c)
    /\ ~PathExists(OwnPlace(c))
    /\ ~PathExists(AlternatePlace(c))

\* the outcome r of a call with such a url is the reference as it was given
ReturnedUnchanged(r) ==
    Unresolvable(r.call) => (r.exc = "" /\ r.result = r.call.reference_path)

\* C17: every call of the resolver with an http(s) reference that matches no
\* prefix of the prefix table, made while neither the reference's place
\* under resources/http nor its place under resources/https exists, returns
\* the reference unchanged (which the caller then finds missing and names in
\* its warning).
C17_UnresolvableReturnedUnchanged ==
    [][calls' = calls + 1 => ReturnedUnchanged(resolved'[1])]_vars

\* the same for the calls whose prefix table can be hashed, made with empty
\* caches while the base directory has no resources directory at all
UnchangedWithoutResources ==
    [][(/\ calls' = calls + 1
        /\ resolved'[1].call.hashable
        /\ resolve_path_cache = EmptyDict
        /\ ~PathExists(RepoDir(resolved'[1].call.base_taxonomy_dir)))
       => ReturnedUnchanged(resolved'[1])]_vars

\* the resolver was called, with empty caches and an empty table that can be
\* hashed, with http://h/p while /t/resources held the file http/h/q alone:
\* it returned /t/resources/http/h/p, a path that does not exist
C17_MissingPlaceReturned ==
    /\ resolved # None
    /\ calls = 1
    /\ DOMAIN fs = {OtherPlace}
    /\ resolved[1].call.reference_path = RefHttp
    /\ resolved[1].call.base_taxonomy_dir = BaseDir
    /\ resolved[1].call.url_mappings = <<>>
    /\ resolved[1].call.hashable
    /\ Unresolvable(resolved[1].call)
    /\ resolved[1].exc = ""
    /\ resolved[1].result = HttpPlace
    /\ resolved[1].result # RefHttp
    /\ ~PathExists(resolved[1].result)

\* the outcome r of a call that returned is the path a call with empty caches
\* returns for the same arguments on the filesystem as it is
SameAsUnmemoized(r) ==
    r.exc = "" =>
        r.result = Unmemoized(r.call.reference_path, r.call.base_dir,
                              r.call.base_taxonomy_dir, r.call.url_mappings)

\* C18: memoization never changes a result: after any sequence of earlier
\* calls (with another base directory, another prefix table, or before a
\* file appeared in the resources folder structure) a call of the resolver
\* returns the path that a call with an empty memo returns on the same
\* arguments and the same filesystem.
C18_MemoNeverChangesResult ==
    [][calls' = calls + 1 => SameAsUnmemoized(resolved'[1])]_vars

\* the first call of a process, and every call after clear_caches(), agrees
\* with the unmemoized resolver
FirstCallUnmemoized ==
    [][(calls' = calls + 1 /\ resolve_path_cache = EmptyDict)
       => SameAsUnmemoized(resolved'[1])]_vars

\* two calls were made for http://h/p from the directory /t with a table
\* that can be hashed; /t/resources/http/h/p exists now, and the second call
\* returned the url itself, which RESOLVED_PATHS kept from the first call
C18_StaleResultReturned ==
    /\ resolved # None
    /\ calls = 2
    /\ HttpPlace \in DOMAIN fs
    /\ resolved[1].call.reference_path = RefHttp
    /\ resolved[1].call.base_dir = BaseDir
    /\ resolved[1].call.base_taxonomy_dir = BaseDir
    /\ resolved[1].call.url_mappings = <<>>
    /\ resolved[1].call.hashable
    /\ resolved[1].exc = ""
    /\ CacheKey(RefHttp, BaseDir) \in DOMAIN RESOLVED_PATHS
    /\ resolved[1].result = RefHttp
    /\ Unmemoized(RefHttp, BaseDir, BaseDir, <<>>) = HttpPlace

\* C19: edge upsert is idempotent: an extended link applied to the store a
\* second time leaves every (parent, role) bucket as the first application
\* left it, so no bucket ever holds the same edge twice.
C19_NoEdgeStoredTwice ==
    \A id \in DOMAIN concepts.val : \A kind \in NetworkKinds :
        \A role \in DOMAIN concepts.val[id][kind] :
            \A i, j \in 1..Len(Bucket(id, kind, role)) :
                Bucket(id, kind, role)[i] = Bucket(id, kind, role)[j] => i = j

\* parse() has returned; schema a names the linkbase l in two linkbaseRef
\* elements, l was parsed twice, and the bucket of X for role R holds the
\* one edge of l twice
C19_EdgeStoredTwice ==
    /\ phase = "done"
    /\ {FileA, FileL} \subseteq DOMAIN fs
    /\ fs[FileA].linkbaseRefs = <<<<"l">>, <<"l">>>>
    /\ Len(fs[FileL].links) = 1
    /\ Len(fs[FileL].links[1].arcs) = 1
    /\ FileL \in DOMAIN linkbase_parses
    /\ linkbase_parses[FileL] = 2
    /\ Len(EdgesOfX(concepts)) = 2
    /\ EdgesOfX(concepts)[1] = EdgesOfX(concepts)[2]

\* the number of places of seq that hold x
Count(seq, x) == Cardinality({i \in 1..Len(seq) : seq[i] = x})

\* every element of the container c is an element of the container d
KeptIn(c, d) == \A i \in 1..Len(c.elems) : Count(d.elems, c.elems[i]) >= 1

\* the call r == _add_dimension(from, to, kind, role, ...) on the store dims
\* succeeded and left `to` once in related[kind] and `role` once in roles,
\* with every earlier member of related and of roles
LeftAsSets(dims, r, from_id, to_id, rel_type, link_role) ==
    /\ r.err = ""
    /\ Count(r.dims[from_id].related[rel_type].elems, to_id) = 1
    /\ Count(r.dims[from_id].roles.elems, link_role) = 1
    /\ from_id \in DOMAIN dims =>
          /\ KeptIn(dims[from_id].roles, r.dims[from_id].roles)
          /\ \A k \in DOMAIN dims[from_id].related :
                KeptIn(dims[from_id].related[k], r.dims[from_id].related[k])

\* the arguments of the calls examined
DimensionNodes == {ConceptX, ConceptY, ConceptZ}
DimensionKinds == {RelTypeOfArcrole(ArcroleAll), RelTypeOfArcrole(ArcroleDomainMember)}
DimensionRoles == {"D", "E"}

\* C20: dimensional relations are sets: on the store that any sequence of
\* earlier calls has left, every call _add_dimension(from, to, kind, role,
\* source) succeeds and leaves `to` in dimensions[from].related[kind] exactly
\* once and `role` in dimensions[from].roles exactly once, keeping the
\* earlier members.
C20_AddDimensionKeepsSets ==
    \A from_id, to_id \in DimensionNodes, rel_type \in DimensionKinds,
       link_role \in DimensionRoles :
        LeftAsSets(dimensions,
                   AddDimension(dimensions, from_id, to_id, rel_type, link_role, FileL),
                   from_id, to_id, rel_type, link_role)

\* the same for the first call about a node
FirstCallKeepsSets ==
    \A from_id, to_id \in DimensionNodes, rel_type \in DimensionKinds,
       link_role \in DimensionRoles :
        from_id \notin DOMAIN dimensions =>
            LeftAsSets(dimensions,
                       AddDimension(dimensions, from_id, to_id, rel_type, link_role, FileL),
                       from_id, to_id, rel_type, link_role)

\* the definition handler has worked on a link with two domain-member arcs
\* leaving X: the call for the first arc left the members of X as a list,
\* the call for the second arc raised AttributeError, which ended the work on
\* the linkbase, and the same call on the store as it is raises it again
C20_SecondCallRaised ==
    /\ LinkbaseHolds(<<DefinitionMembers>>)
    /\ FileL \in DOMAIN linkbase_parses
    /\ ConceptX \in DOMAIN dimensions
    /\ dimensions[ConceptX].related[RelTypeOfArcrole(ArcroleDomainMember)] = PyList(<<ConceptY>>)
    /\ log = << <<"error", "Error parsing linkbase", FileL>> >>
    /\ AddDimension(dimensions, ConceptX, ConceptZ, RelTypeOfArcrole(ArcroleDomainMember),
                    "D", FileL).err = "AttributeError"

\* C21: in every reachable state of the store, every concept record c stored
\* under the key k has k = c.id = c.namespace + "#" + c.name.
C21_KeyIsIdIsQualifiedName ==
    \A k \in DOMAIN concepts.val :
        /\ k = concepts.val[k].id
        /\ concepts.val[k].id = concepts.val[k].namespace \o <<"#">> \o concepts.val[k].name

\* parse() has returned with the three concepts of schema a harvested, in the
\* order of their declarations, X under the key A#X with the name X
C21_ConceptsHarvested ==
    /\ phase = "done"
    /\ concepts.keys = <<ConceptX, ConceptY, ConceptZ>>
    /\ concepts.val[ConceptX].namespace = <<"A">>
    /\ concepts.val[ConceptX].name = <<"X">>
    /\ concepts.val[ConceptX].id = <<"A", "#", "X">>

\* the calculation bucket of role for the concept id, empty when there is none
CalculationBucket(id, role) ==
    IF id \in DOMAIN concepts.val /\ role \in DOMAIN concepts.val[id].calculation
    THEN concepts.val[id].calculation[role] ELSE <<>>

\* the edges of a bucket that lead to child
EdgesTo(bucket, child) == {i \in 1..Len(bucket) : bucket[i].to = child}

\* the arc of a calculation link, from a known parent to a resolved child,
\* has exactly one edge in the parent's bucket, with its order (1.0 when the
\* arc has none) and its weight as numbers
CalculationEdge(link, concept_locs, arc) ==
    (/\ arc.from \in DOMAIN concept_locs
     /\ arc.to \in DOMAIN concept_locs
     /\ Has(concepts, concept_locs[arc.from])
     /\ "weight" \in DOMAIN arc.attrs)
    => /\ Cardinality(EdgesTo(CalculationBucket(concept_locs[arc.from], link.role),
                              concept_locs[arc.to])) = 1
       /\ \A i \in EdgesTo(CalculationBucket(concept_locs[arc.from], link.role),
                           concept_locs[arc.to]) :
             /\ CalculationBucket(concept_locs[arc.from], link.role)[i].order
                    = PyFloat(ParseFloat(Get(arc.attrs, "order", "1"))[1])
             /\ "weight" \in DOMAIN CalculationBucket(concept_locs[arc.from], link.role)[i]
             /\ CalculationBucket(concept_locs[arc.from], link.role)[i].weight
                    = PyFloat(ParseFloat(arc.attrs.weight)[1])

\* C22: in the final store, a calculation arc from a known parent to a
\* resolved child has exactly one edge in the parent's calculation bucket for
\* the link's role, with order 1.0 when the arc has no order attribute and
\* with the weight attribute as a signed number (weight="-1" is -1.0).
C22_CalculationEdgeIsNumeric ==
    phase = "done" =>
        \A path \in DOMAIN linkbase_parses :
            \A k \in 1..Len(fs[path].links) :
                fs[path].links[k].kind = "calculationLink" =>
                    \A i \in 1..Len(fs[path].links[k].arcs) :
                        CalculationEdge(fs[path].links[k],
                                        ConceptLocs(concepts, fs[path].links[k].locs, EmptyDict),
                                        fs[path].links[k].arcs[i])

\* parse() has returned without an error on a linkbase whose one link is the
\* calculation arc X -> Y with weight="-1": the one edge of X has the order
\* 1.0 and the weight "-1", a str
C22_WeightKeptAsText ==
    /\ phase = "done"
    /\ LinkbaseHolds(<<CalculationY>>)
    /\ fs[FileA].linkbaseRefs = <<<<"l">>>>
    /\ log = <<>>
    /\ Len(CalculationBucket(ConceptX, "R")) = 1
    /\ CalculationBucket(ConceptX, "R")[1].to = ConceptY
    /\ CalculationBucket(ConceptX, "R")[1].order = PyFloat(1)
    /\ CalculationBucket(ConceptX, "R")[1].weight = PyStr("-1")

\* parse() has returned without an error on a linkbase whose one link is the
\* calculation arc X -> Z without an order attribute: the edge has the order 1.0
DefaultOrderStored ==
    /\ phase = "done"
    /\ LinkbaseHolds(<<CalculationZ>>)
    /\ fs[FileA].linkbaseRefs = <<<<"l">>>>
    /\ log = <<>>
    /\ Len(CalculationBucket(ConceptX, "R")) = 1
    /\ CalculationBucket(ConceptX, "R")[1].to = ConceptZ
    /\ CalculationBucket(ConceptX, "R")[1].order = PyFloat(1)

\* str.endswith
EndsWith(s, suffix) ==
    /\ Len(suffix) <= Len(s)
    /\ SubSeq(s, Len(s) - Len(suffix) + 1, Len(s)) = suffix

\* the part of an href before the first '#', and the part behind it
DocPart(href) == SubSeq(href, 1, FirstIndex(href, "#") - 1)
Fragment(href) == SubSeq(href, FirstIndex(href, "#") + 1, Len(href))

\* the well-formed schema files that the document part names: those whose
\* path ends with it as a whole file name
SchemasNamed(doc_part) ==
    {p \in DOMAIN fs : doc_part # <<>> /\ fs[p].wf /\ EndsWith(p, <<"/">> \o doc_part)}

\* the concept id that the resolver gives for href on the store cs is made
\* of the targetNamespace of a schema that the document part of href names
AttributedToNamedSchema(cs, href) ==
    ExtractConceptIdFromHref(cs, href) # None =>
        \E p \in SchemasNamed(DocPart(href)) :
            ExtractConceptIdFromHref(cs, href)[1] = ConceptId(fs[p].ns, Fragment(href))

\* C23: for an href docPart#fragment the concept resolver returns
\* namespace#fragment with the targetNamespace of the schema that docPart
\* names; it never returns the namespace of another schema whose path only
\* contains docPart, and never attributes an href with an empty docPart to a
\* known schema.  Stated for every locator of every linkbase, on every store
\* the parser reaches.
C23_HrefAttributedToItsSchema ==
    \A path \in DOMAIN fs : \A k \in 1..Len(fs[path].links) :
        \A i \in 1..Len(fs[path].links[k].locs) :
            fs[path].links[k].locs[i].href # <<>> =>
                AttributedToNamedSchema(concepts, fs[path].links[k].locs[i].href)

\* the same for the hrefs whose document part is the whole file name of a
\* schema that has declared a concept
SuffixAttributed ==
    \A path \in DOMAIN fs : \A k \in 1..Len(fs[path].links) :
        \A i \in 1..Len(fs[path].links[k].locs) :
            (/\ FirstIndex(fs[path].links[k].locs[i].href, "#") > 1
             /\ \E id \in DOMAIN concepts.val :
                   EndsWith(concepts.val[id].sourceFile,
                            <<"/">> \o DocPart(fs[path].links[k].locs[i].href)))
            => AttributedToNamedSchema(concepts, fs[path].links[k].locs[i].href)

\* parse() has returned without an error on a linkbase whose one link goes
\* from X to the locators #Y and t#Z: both were taken for concepts of schema
\* a, whose path /t/a contains the empty string and t, and X has the edges
C23_AttributedBySubstring ==
    /\ phase = "done"
    /\ LinkbaseHolds(<<PresentationLoose>>)
    /\ fs[FileA].linkbaseRefs = <<<<"l">>>>
    /\ log = <<>>
    /\ SchemasNamed(DocPart(LocHere.href)) = {}
    /\ SchemasNamed(DocPart(LocT.href)) = {}
    /\ ExtractConceptIdFromHref(concepts, LocHere.href) = Some(ConceptY)
    /\ ExtractConceptIdFromHref(concepts, LocT.href) = Some(ConceptZ)
    /\ Targets(EdgesOfX(concepts)) = <<ConceptY, ConceptZ>>

\* the schema at q was processed to its end: it is well-formed, was attempted
\* and no error names it
Processed(q) == q \in DOMAIN attempts /\ WellFormed(q) /\ ErrorsNaming(q) = 0

\* every linkbase that exists and that the schema at q refers to was parsed
LinkbasesParsed(q) ==
    \A i \in 1..Len(fs[q].linkbaseRefs) :
        Exists(Referenced(q, fs[q].linkbaseRefs[i]))
            => Referenced(q, fs[q].linkbaseRefs[i]) \in DOMAIN linkbase_parses

\* once parse() has returned, the files that the references of every schema
\* it attempted name, taken from the directory of that schema, were
\* attempted themselves
SchemaReferencesFromOwnDirectory ==
    phase = "done" =>
        \A q \in DOMAIN attempts :
            WellFormed(q) => DependenciesAttempted(q) /\ LinkbasesParsed(q)

\* the locator href of the linkbase at path whose document part no known
\* concept matches gets the targetNamespace of the schema that the document
\* part names from the directory of the linkbase
LocatorFromOwnDirectory(path, href, target) ==
    (/\ FirstIndex(href, "#") > 1
     /\ KnownNamespace(concepts, DocPart(href)) = <<>>
     /\ Exists(target)
     /\ WellFormed(target)
     /\ fs[target].ns # <<>>)
    => ExtractConceptIdFromHref(concepts, href) = Some(ConceptId(fs[target].ns, Fragment(href)))

LocatorsFromOwnDirectory ==
    \A path \in DOMAIN linkbase_parses : \A k \in 1..Len(fs[path].links) :
        \A i \in 1..Len(fs[path].links[k].locs) :
            LocatorFromOwnDirectory(path, fs[path].links[k].locs[i].href,
                                    Referenced(path, DocPart(fs[path].links[k].locs[i].href)))

\* C24: a relative reference is resolved against the directory of the
\* document that holds it: the schemaLocation of an import or include and the
\* href of a linkbaseRef against the directory of the schema, and the
\* document part of a locator href, when the concept resolver falls back on
\* the path resolver, against the directory of the linkbase.
C24_RelativeToContainingDocument ==
    SchemaReferencesFromOwnDirectory /\ LocatorsFromOwnDirectory

\* the single-file parse() has returned on the taxonomy with the
\* subdirectory d: the import n of d/c was followed to d/n and the linkbase
\* d/l was parsed, but its locator ../a#X, which names the entry point, was
\* looked up from the directory of the entry point and found no schema, so
\* that the arc from X left no edge
C24_LocatorFromEntryDirectory ==
    /\ phase = "done"
    /\ build = "script"
    /\ fs = DirectoryFilesystem(FALSE)
    /\ InDir(<<"n">>) \in DOMAIN attempts
    /\ InDir(<<"l">>) \in DOMAIN linkbase_parses
    /\ log = <<>>
    /\ Has(concepts, ConceptX)
    /\ Referenced(InDir(<<"l">>), <<".", ".", "/", "a">>) = FileA
    /\ ExtractConceptIdFromHref(concepts, PresentationAcross.locs[1].href) = None
    /\ ExtractConceptIdFromHref(concepts, PresentationAcross.locs[2].href) = None
    /\ EdgesOfX(concepts) = <<>>

\* the entry of the network index for relationship type and role in lbs
Network(lbs, type, role) == lbs[type][role]

\* lbs has an index entry for relationship type and role
Indexed(lbs, type, role) == type \in DOMAIN lbs /\ role \in DOMAIN lbs[type]

\* the members of the sequence seq
Members(seq) == {seq[i] : i \in 1..Len(seq)}

\* the index lbs covers link, whose locators resolve to concept_locs and whose
\* arcs emit rels: the concept ids are among concepts and the edges among
\* relationships of the entry of the link's role
LinkIndexed(lbs, type, link, concept_locs, rels) ==
    /\ Indexed(lbs, type, link.role)
    /\ Range(concept_locs) \subseteq Members(Network(lbs, type, link.role).concepts)
    /\ \A parent \in DOMAIN rels :
          /\ parent \in DOMAIN Network(lbs, type, link.role).relationships
          /\ Members(rels[parent])
                 \subseteq Members(Network(lbs, type, link.role).relationships[parent])

\* the index of after covers every link of doc of the kind of type, after
\* being the outcome of the handler of that kind, run without an error
AllLinksIndexed(after, doc, kind, type, extra_attrs) ==
    after.err = "" =>
        \A k \in 1..Len(LinksOfKind(doc, kind)) :
            LinkIndexed(after.linkbases, type, LinksOfKind(doc, kind)[k],
                        LocatorTable(LinksOfKind(doc, kind)[k]),
                        RelationshipArcs(LinksOfKind(doc, kind)[k],
                                         LocatorTable(LinksOfKind(doc, kind)[k]),
                                         extra_attrs).rels)

\* C25: once a handler of _parse_linkbase has processed the extended links of
\* its kind K, linkbases[K][R].concepts holds every concept id the locators of
\* every such link of role R resolve to and linkbases[K][R].relationships
\* holds every edge its arcs emit, for every link of role R and not only for
\* the first.
C25_EveryLinkIndexed ==
    /\ InLinkbase("presentation") =>
          AllLinksIndexed(ProcessPresentationLinksOn(Handled, fs[Top.path], Top.path),
                          fs[Top.path], "presentationLink", "presentation", {})
    /\ InLinkbase("calculation") =>
          AllLinksIndexed(ProcessCalculationLinksOn(Handled, fs[Top.path], Top.path),
                          fs[Top.path], "calculationLink", "calculation", {"weight"})
    /\ InLinkbase("definition") =>
          AllLinksIndexed(ProcessDefinitionLinksOn(Handled, fs[Top.path], Top.path),
                          fs[Top.path], "definitionLink", "definition",
                          {"contextElement", "typedDomainRef", "targetRole"})

\* the first link of every role is covered by the index
FirstLinkOfRoleIndexed ==
    InLinkbase("presentation") =>
        LET after == ProcessPresentationLinksOn(Handled, fs[Top.path], Top.path)
            links == LinksOfKind(fs[Top.path], "presentationLink")
        IN  after.err = "" /\ "presentation" \notin DOMAIN linkbases =>
                \A k \in 1..Len(links) :
                    (\A j \in 1..(k - 1) : links[j].role # links[k].role) =>
                        LinkIndexed(after.linkbases, "presentation", links[k],
                                    LocatorTable(links[k]),
                                    RelationshipArcs(links[k], LocatorTable(links[k]), {}).rels)

\* the presentation handler has returned without an error on two links of role
\* R, X -> Y and then X -> Z: the bucket of X holds both edges, the index of
\* role R holds neither Z nor the edge to Z
C25_SecondLinkNotIndexed ==
    /\ InLinkbase("calculation")
    /\ LinkbaseHolds(<<PresentationY2, PresentationZ1>>)
    /\ log = <<>>
    /\ Targets(EdgesOfX(concepts)) = <<ConceptY, ConceptZ>>
    /\ Indexed(linkbases, "presentation", "R")
    /\ Members(Network(linkbases, "presentation", "R").concepts) = {ConceptX, ConceptY}
    /\ Targets(Network(linkbases, "presentation", "R").relationships[ConceptX])
           = <<ConceptY>>

\* the local name of an attribute name: what follows "}" in "{namespace}local"
LocalName(attrib_name) ==
    IF attrib_name # <<>> /\ Head(attrib_name) = "{"
    THEN SubSeq(attrib_name, FirstIndex(attrib_name, "}") + 1, Len(attrib_name))
    ELSE attrib_name

\* the values of the attributes of attrs whose local name is exactly local
ValuesOf(attrs, local) ==
    {attrs[i][2] : i \in {j \in 1..Len(attrs) : LocalName(attrs[j][1]) = local}}

\* field is the value of an attribute of attrs whose local name is local, and
\* null when there is none
PromotedFrom(field, attrs, local) ==
    IF ValuesOf(attrs, local) = {} THEN field = None
    ELSE field # None /\ field[1] \in ValuesOf(attrs, local)

\* the concept record made from element has the periodType and the balance of
\* the attributes of these local names
PromotedExactly(element, namespace, schema_path) ==
    /\ PromotedFrom(ConceptData(element, namespace, schema_path).periodType,
                    element.attrs, <<"periodType">>)
    /\ PromotedFrom(ConceptData(element, namespace, schema_path).balance,
                    element.attrs, <<"balance">>)

\* C26: the record _process_elements makes from an element declaration has as
\* periodType (balance) the value of the attribute whose local name is exactly
\* periodType (balance), under any prefix, and null when no attribute has that
\* local name: an attribute whose name only contains the string sets nothing.
C26_PromotedByLocalName ==
    InSchema("elements") =>
        \A i \in 1..Len(fs[Top.path].elements) :
            PromotedExactly(fs[Top.path].elements[i], fs[Top.path].ns, Top.path)

\* an attribute whose local name is exactly periodType or balance is promoted
\* whenever no other attribute name contains the string
ExactNamesPromoted ==
    InSchema("elements") =>
        \A i \in 1..Len(fs[Top.path].elements) :
            (\A j \in 1..Len(fs[Top.path].elements[i].attrs) :
                 LET attrib_name == fs[Top.path].elements[i].attrs[j][1]
                 IN  /\ PeriodTypeInName(attrib_name) => LocalName(attrib_name) = <<"periodType">>
                     /\ BalanceInName(attrib_name) => LocalName(attrib_name) = <<"balance">>)
            => PromotedExactly(fs[Top.path].elements[i], fs[Top.path].ns, Top.path)

\* parse() has returned on a schema whose X carries xbrli:periodType="instant"
\* and then ext:periodTypeHint="hint", and the periodType of X is "hint"
C26_ContainingNamePromoted ==
    /\ phase = "done"
    /\ fs = AttributeFilesystem(<< <<XbrliPeriodType, "instant">>, <<ExtPeriodTypeHint, "hint">> >>)
    /\ Has(concepts, ConceptX)
    /\ concepts.val[ConceptX].periodType = Some("hint")
    /\ concepts.val[ConceptX].balance = None

\* parse() has returned on a schema whose X carries ext:unbalanced="yes" and
\* no balance attribute, and the balance of X is "yes"
UnbalancedPromoted ==
    /\ phase = "done"
    /\ fs = AttributeFilesystem(<< <<ExtUnbalanced, "yes">> >>)
    /\ Has(concepts, ConceptX)
    /\ concepts.val[ConceptX].balance = Some("yes")

\* parse() has returned on a schema whose X carries xbrli:periodType and
\* xbrli:balance, and X has both values
QualifiedNamesPromoted ==
    /\ phase = "done"
    /\ fs = AttributeFilesystem(<< <<XbrliPeriodType, "instant">>, <<XbrliBalance, "debit">> >>)
    /\ Has(concepts, ConceptX)
    /\ concepts.val[ConceptX].periodType = Some("instant")
    /\ concepts.val[ConceptX].balance = Some("debit")

DefinitionExtraAttrs == {"contextElement", "typedDomainRef", "targetRole"}

\* the edge the arc loop emits for arc, whose ends concept_locs resolves
DefinitionEdge(concept_locs, arc) ==
    Relationship(concept_locs[arc.to], ParseFloat(Get(arc.attrs, "order", "1"))[1],
                 Get(arc.attrs, "preferredLabel", ""),
                 AdditionalAttrs(arc, DefinitionExtraAttrs))

\* the names under which an arc may carry the attribute that becomes field:
\* in the namespace of XBRL Dimensions, or without a namespace
CarriedAs(field) ==
    CASE field = "targetRole" -> {XbrldtTargetRole, "targetRole"}
      [] field = "typedDomainRef" -> {XbrldtTypedDomainRef, "typedDomainRef"}
      [] OTHER -> {"contextElement"}

\* edge has field with the value of the attribute when arc carries it, and
\* has no such field when arc does not
FieldFollowsAttribute(edge, arc, field) ==
    IF \E name \in CarriedAs(field) : name \in DOMAIN arc.attrs
    THEN /\ field \in DOMAIN edge
         /\ \E name \in CarriedAs(field) \cap DOMAIN arc.attrs : edge[field] = PyStr(arc.attrs[name])
    ELSE field \notin DOMAIN edge

\* every arc of link with resolved ends and a numeric order
EmittingArcs(link) ==
    {i \in 1..Len(link.arcs) :
        /\ link.arcs[i].from \in DOMAIN LocatorTable(link)
        /\ link.arcs[i].to \in DOMAIN LocatorTable(link)
        /\ ParseFloat(Get(link.arcs[i].attrs, "order", "1")) # None}

\* the edges of the definition links of the linkbase on top of the stack
\* follow the attributes of their arcs in the fields of fields
DefinitionEdgesFollow(fields) ==
    InLinkbase("definition") =>
        \A k \in 1..Len(LinksOfKind(fs[Top.path], "definitionLink")) :
            LET link == LinksOfKind(fs[Top.path], "definitionLink")[k]
            IN  \A i \in EmittingArcs(link) : \A field \in fields :
                    FieldFollowsAttribute(DefinitionEdge(LocatorTable(link), link.arcs[i]),
                                          link.arcs[i], field)

\* C27: the edge of a definition arc that carries xbrldt:targetRole,
\* xbrldt:typedDomainRef or contextElement has the field targetRole,
\* typedDomainRef or contextElement with the value of the attribute, and the
\* edge of an arc without the attribute has no such field.
C27_DimensionalAttributesOnEdge == DefinitionEdgesFollow(DefinitionExtraAttrs)

\* the part of C27 about contextElement, which has no prefix
ContextElementOnEdge == DefinitionEdgesFollow({"contextElement"})

\* the definition bucket of X for role D
DefinitionEdgesOfX ==
    IF Has(concepts, ConceptX) /\ "D" \in DOMAIN concepts.val[ConceptX].definition
    THEN concepts.val[ConceptX].definition["D"] ELSE <<>>

\* parse() has returned without an error on the link whose arc from X to Y
\* carries xbrldt:targetRole, xbrldt:typedDomainRef and contextElement: the
\* edge to Y has contextElement alone, the edge to Z none of the three
C27_PrefixedAttributesLost ==
    /\ phase = "done"
    /\ LinkbaseHolds(<<DefinitionTargeted>>)
    /\ log = <<>>
    /\ Targets(DefinitionEdgesOfX) = <<ConceptY, ConceptZ>>
    /\ DOMAIN DefinitionEdgesOfX[1] = {"to", "order", "preferredLabel", "contextElement"}
    /\ DefinitionEdgesOfX[1].contextElement = PyStr("segment")
    /\ DOMAIN DefinitionEdgesOfX[2] = {"to", "order", "preferredLabel"}

\* the same link with the three attributes spelled without a namespace: the
\* edge to Y has the three fields
UnprefixedAttributesKept ==
    /\ phase = "done"
    /\ LinkbaseHolds(<<DefinitionUnprefixed>>)
    /\ log = <<>>
    /\ Targets(DefinitionEdgesOfX) = <<ConceptY, ConceptZ>>
    /\ DefinitionEdgesOfX[1].targetRole = PyStr("T")
    /\ DefinitionEdgesOfX[1].typedDomainRef = PyStr("a#Z")
    /\ DefinitionEdgesOfX[1].contextElement = PyStr("scenario")

\* the existing, well-formed files the import and include elements of the
\* schemas of S name
Imported(S) ==
    {q \in DOMAIN fs :
        /\ WellFormed(q)
        /\ \E p \in S : \E i \in 1..Len(Dependencies(p)) :
              Dependencies(p)[i] # <<>> /\ q = Referenced(p, Dependencies(p)[i])}

\* S and every schema reachable from it through import and include elements
RECURSIVE ReachableFrom(_)
ReachableFrom(S) == IF Imported(S) \subseteq S THEN S ELSE ReachableFrom(S \cup Imported(S))

\* the ids of the concepts the schema at path declares
DeclaredIn(path) ==
    {ConceptId(fs[path].ns, fs[path].elements[i].name) :
        i \in {j \in 1..Len(fs[path].elements) : fs[path].elements[j].name # <<>>}}

\* the schema whose linkbaseRef the linkbase on top of the stack is parsed for
Referrer == stack[Len(stack) - 1].path

\* the store holds the concepts of every schema of S
Harvested(S) == \A q \in S : \A id \in DeclaredIn(q) : Has(concepts, id)

\* C28: whenever _parse_linkbase starts on a linkbase a schema S refers to,
\* the store holds every concept S declares and every concept declared by a
\* schema reachable from S through import and include references to existing,
\* well-formed files, whether or not the imports form a cycle.
C28_HarvestBeforeLinkbases ==
    InLinkbase("parse") => Harvested(ReachableFrom({Referrer}))

\* the concepts of the referring schema itself are in the store
ReferrerHarvested == InLinkbase("parse") => Harvested({Referrer})

\* the reachable schemas are harvested when none of them imports or includes
\* a schema whose parse is still under way
HarvestedWithoutCycle ==
    InLinkbase("parse") =>
        \/ \E k \in 1..(Len(stack) - 2) : stack[k].path \in ReachableFrom({Referrer})
        \/ Harvested(ReachableFrom({Referrer}))

\* a imports c, c imports a and refers to l: _parse_linkbase starts on l for c
\* while the parse of a waits for its imports to return, and X of a, which l
\* links to Y, is not in the store
C28_LinkbaseBeforeImporter ==
    /\ InLinkbase("parse")
    /\ Top.path = FileL
    /\ {FileA, FileC} \subseteq DOMAIN fs
    /\ Referrer = FileC
    /\ FileA \in ReachableFrom({FileC})
    /\ Len(stack) = 3 /\ stack[1].path = FileA /\ stack[2].path = FileC
    /\ Has(concepts, <<"C", "#", "Z">>)
    /\ ~Has(concepts, ConceptX)

(***************************************************************************)
(* writer.py.  XBRLTaxonomyWriter works on taxonomy_data = [concepts,      *)
(* linkbases, roleTypes, dimensions]; the dicts whose items it iterates    *)
(* are [keys, val], in insertion order.  writer = [status, stack, pending, *)
(* out, hierarchy, structured]: stack holds one frame for every call of a  *)
(* _build_* method that has not returned (the method, its concept, the ids *)
(* its loop runs over, the index of the loop and the structures built so   *)
(* far), pending the items the loop of the write_* method has still to     *)
(* build, out what it has built, hierarchy and structured what the two     *)
(* write_* methods have dumped.                                            *)
(***************************************************************************)

\* sys.getrecursionlimit(): the number of nested calls Python allows
RecursionLimit == 6

\* self.taxonomy_data.get(component, {})
Component(name) == Get(taxonomy_data, name, EmptyDict)

\* self.taxonomy_data.get('concepts', {}).get(concept_id, {})
ConceptInfo(concept_id) == Get(Component("concepts"), concept_id, EmptyDict)

\* _simplify_labels
SimplifyLabels(labels) ==
    IF labels.keys = <<>> THEN EmptyDict
    ELSE Get(labels.val, IF Has(labels, "en") THEN "en" ELSE Head(labels.keys), EmptyDict)

\* _get_role_definition
GetRoleDefinition(role) ==
    Get(Get(Component("roleTypes"), role, EmptyDict), "definition", role)

\* the dict every _build_* method returns: id, name, labels and the list of
\* the structures below it under the key of the method
Structure(key, id, built) ==
    ("id" :> id) @@ ("name" :> Get(ConceptInfo(id), "name", <<>>))
    @@ ("labels" :> SimplifyLabels(Get(ConceptInfo(id), "labels", EmptyOrdered)))
    @@ (key :> built)

\* the five _build_* methods: the key of the list each of them fills
ListKey(fn) ==
    CASE fn = "hypercube" -> "dimensions"
      [] fn = "dimension" -> "domains"
      [] fn = "domain" -> "members"
      [] OTHER -> "children"

\* the method each of them calls in its loop
Callee(fn) ==
    CASE fn = "hypercube" -> "dimension"
      [] fn = "dimension" -> "domain"
      [] fn = "domain" -> "member"
      [] fn = "member" -> "member"
      [] OTHER -> "subtree"

\* the relation of self.dimensions each of them follows
RelationOf(fn) ==
    CASE fn = "hypercube" -> "dimension"
      [] fn = "dimension" -> "domain"
      [] OTHER -> "member"

\* linkbases.get('presentation', {})
PresentationLinkbases == Get(Component("linkbases"), "presentation", EmptyOrdered)

\* linkbase.get('relationships', {}) of the presentation network of role
RelationshipsOf(role) == Get(PresentationLinkbases.val[role], "relationships", EmptyOrdered)

\* sorted(relationships[concept_id], key=lambda x: float(x.get('order', 0)))
OrderKey(x) == IF "order" \in DOMAIN x THEN x.order.v ELSE 0
InsertByKey(sorted, x) ==
    LET k == Cardinality({i \in 1..Len(sorted) : OrderKey(sorted[i]) <= OrderKey(x)})
    IN  SubSeq(sorted, 1, k) \o <<x>> \o SubSeq(sorted, k + 1, Len(sorted))
SortedChildren(children) == FoldLeft(InsertByKey, <<>>, children)

\* dimensions.get(id, {}).get('related', {}).get(relation, [])
RelatedIds(id, relation) ==
    LET dims == Get(taxonomy_data, "dimensions", EmptyOrdered)
    IN  Get(Get(IF Has(dims, id) THEN dims.val[id] ELSE EmptyDict, "related", EmptyDict),
            relation, <<>>)

\* the ids the loop of a _build_* method runs over
LoopIds(fn, role, id) ==
    IF fn = "subtree"
    THEN IF Has(RelationshipsOf(role), id)
         THEN Targets(SortedChildren(RelationshipsOf(role).val[id]))
         ELSE <<>>
    ELSE RelatedIds(id, RelationOf(fn))

\* a method on its entry
Called(fn, role, id) ==
    [fn |-> fn, role |-> role, id |-> id, ids |-> LoopIds(fn, role, id), i |-> 1, built |-> <<>>]

\* all_children of _build_concept_hierarchy
AllChildren(relationships) ==
    UNION {{relationships.val[p][i].to : i \in 1..Len(relationships.val[p])} :
              p \in DOMAIN relationships.val}

\* root_concepts: the parents that are no child, in the order of the keys
RootConcepts(relationships) ==
    SelectSeq(relationships.keys, LAMBDA parent : parent \notin AllChildren(relationships))

\* the calls of _build_concept_subtree the loops of _build_concept_hierarchy
\* make, in order: one for every root of every role, from the k-th role on
RECURSIVE RootCalls(_)
RootCalls(k) ==
    IF k > Len(PresentationLinkbases.keys) THEN <<>>
    ELSE LET role == PresentationLinkbases.keys[k]
             root_concepts == RootConcepts(RelationshipsOf(role))
         IN  [j \in 1..Len(root_concepts) |-> [role |-> role, id |-> root_concepts[j]]]
             \o RootCalls(k + 1)

\* hierarchy with role_hierarchy of every role, before any root is built
RECURSIVE RoleHierarchies(_)
RoleHierarchies(k) ==
    IF k = 0 THEN EmptyOrdered
    ELSE OrderedPut(RoleHierarchies(k - 1), PresentationLinkbases.keys[k],
                    [role |-> PresentationLinkbases.keys[k],
                     definition |-> GetRoleDefinition(PresentationLinkbases.keys[k]),
                     roots |-> <<>>])

\* the calls of _build_hypercube_structure the loop of
\* write_dimensional_structure makes: one for every item of dimensions
\* whose related has the key hypercube
HypercubeCalls ==
    LET dims == Get(taxonomy_data, "dimensions", EmptyOrdered)
        ids == SelectSeq(dims.keys,
                         LAMBDA dim_id : "hypercube" \in DOMAIN Get(dims.val[dim_id], "related",
                                                                    EmptyDict))
    IN  [j \in 1..Len(ids) |-> [role |-> "", id |-> ids[j]]]

\* a step of the writer: nothing but writer changes
WriterStep(w) ==
    /\ writer' = w
    /\ UNCHANGED taxonomy_data
    /\ UNCHANGED <<build, fs, run, first, reordered, hash_seed>>
    /\ UNCHANGED utilsVars
    /\ UNCHANGED <<phase, stack, processed_schemas, log, attempts, linkbase_parses>>
    /\ UNCHANGED storeVars

\* write_concept_hierarchy, up to the loops of _build_concept_hierarchy
WriteConceptHierarchy ==
    /\ writer.status = "idle"
    /\ writer.hierarchy = None
    /\ WriterStep([writer EXCEPT !.status = "hierarchy", !.pending = RootCalls(1),
                                 !.out = RoleHierarchies(Len(PresentationLinkbases.keys))])

\* write_dimensional_structure, up to its loop over dimensions.items()
WriteDimensionalStructure ==
    /\ writer.status = "idle"
    /\ writer.structured = None
    /\ WriterStep([writer EXCEPT !.status = "dimensional", !.pending = HypercubeCalls,
                                 !.out = EmptyOrdered])

\* the loop of a write_* method calls _build_concept_subtree for a root or
\* _build_hypercube_structure for a hypercube
BuildRoot ==
    /\ writer.status \in {"hierarchy", "dimensional"}
    /\ writer.stack = <<>>
    /\ writer.pending # <<>>
    /\ WriterStep([writer EXCEPT !.stack =
           <<Called(IF writer.status = "hierarchy" THEN "subtree" ELSE "hypercube",
                    Head(writer.pending).role, Head(writer.pending).id)>>])

\* the frame of the method that is running
Running == writer.stack[Len(writer.stack)]

\* the loop of a _build_* method calls the method of the next id.  A call
\* beyond the recursion limit raises RecursionError, which no method catches:
\* the write_* method is left without a dump.
BuildChild ==
    /\ writer.stack # <<>>
    /\ Running.i <= Len(Running.ids)
    /\ IF Len(writer.stack) >= RecursionLimit
       THEN WriterStep([writer EXCEPT !.status = "RecursionError", !.stack = <<>>])
       ELSE WriterStep([writer EXCEPT !.stack =
                Append(@, Called(Callee(Running.fn), Running.role, Running.ids[Running.i]))])

\* the structure returned to the loop of a write_* method is stored
Stored(out, status, call, structure) ==
    IF status = "hierarchy"
    THEN [out EXCEPT !.val[call.role].roots = Append(@, structure)]
    ELSE OrderedPut(out, call.id, structure)

\* a _build_* method returns its structure to the loop that called it
ReturnStructure ==
    /\ writer.stack # <<>>
    /\ Running.i > Len(Running.ids)
    /\ LET structure == Structure(ListKey(Running.fn), Running.id, Running.built)
           n == Len(writer.stack)
       IN  IF n = 1
           THEN WriterStep([writer EXCEPT
                    !.stack = <<>>,
                    !.pending = Tail(@),
                    !.out = Stored(@, writer.status, Head(writer.pending), structure)])
           ELSE WriterStep([writer EXCEPT
                    !.stack = [SubSeq(@, 1, n - 1) EXCEPT
                                  ![n - 1].built = Append(@, structure),
                                  ![n - 1].i = @ + 1]])

\* the end of a write_* method: json.dump of what was built
Dump ==
    /\ writer.status \in {"hierarchy", "dimensional"}
    /\ writer.stack = <<>>
    /\ writer.pending = <<>>
    /\ WriterStep(IF writer.status = "hierarchy"
                  THEN [writer EXCEPT !.status = "idle", !.hierarchy = Some(writer.out)]
                  ELSE [writer EXCEPT !.status = "idle", !.structured = Some(writer.out)])

NextWriter ==
    \/ WriteConceptHierarchy
    \/ WriteDimensionalStructure
    \/ BuildRoot
    \/ BuildChild
    \/ ReturnStructure
    \/ Dump

(***************************************************************************)
(* The dictionaries the writer is made for: a presentation network of role *)
(* R over X, Y and Z with any set of arcs, as parse() indexes it; the      *)
(* dimensions parse() returns, where _add_dimension has succeeded once for *)
(* a concept; and dimensions loaded from a file, where X is a hypercube    *)
(* with the dimension Y, whose domain is Z, with any set of member arcs.   *)
(***************************************************************************)
WriterNodes == <<ConceptX, ConceptY, ConceptZ>>
Nodes == {ConceptX, ConceptY, ConceptZ}
Arcs == Nodes \X Nodes

\* the concepts X, with an English label, and Y, without labels; Z has no record
WriterConcepts ==
    (ConceptX :> [name |-> <<"X">>,
                  labels |-> OrderedPut(EmptyOrdered, "en", [label |-> "First"])])
    @@ (ConceptY :> [name |-> <<"Y">>, labels |-> EmptyOrdered])

WriterRoleTypes == "R" :> [roleURI |-> "R", definition |-> "role R"]

\* the targets of the arcs of E from parent, in the order X, Y, Z
TargetsFrom(E, parent) == SelectSeq(WriterNodes, LAMBDA child : <<parent, child>> \in E)

\* the edge to child: Z has order 1, Y order 2, X order 3
EdgeTo(child) ==
    [to |-> child,
     order |-> PyFloat(CASE child = ConceptZ -> 1 [] child = ConceptY -> 2 [] OTHER -> 3),
     preferredLabel |-> ""]

\* the relationships dict of the network with the arcs E
RelationshipsWith(E) ==
    [keys |-> SelectSeq(WriterNodes, LAMBDA parent : TargetsFrom(E, parent) # <<>>),
     val |-> [parent \in {p \in Nodes : TargetsFrom(E, p) # <<>>} |->
                 [j \in 1..Len(TargetsFrom(E, parent)) |-> EdgeTo(TargetsFrom(E, parent)[j])]]]

HierarchyData(E) ==
    [concepts |-> WriterConcepts,
     linkbases |-> [presentation |->
                       OrderedPut(EmptyOrdered, "R",
                                  [concepts |-> <<>>, relationships |-> RelationshipsWith(E),
                                   sourceFile |-> <<"l">>])],
     roleTypes |-> WriterRoleTypes,
     dimensions |-> EmptyOrdered]

\* an entry of self.dimensions
DimensionEntry(id, related) ==
    [id |-> id, related |-> related, roles |-> <<"D">>, sourceFile |-> <<"l">>]

\* what _add_dimension leaves for a concept: nothing, or one relation to one concept
Relations == {None} \cup ({"hypercube", "dimension", "domain", "member"} \X Nodes)

\* the dimensions in which every concept has the relation that given says
ParsedDimensions(given) ==
    [keys |-> SelectSeq(WriterNodes, LAMBDA id : given[id] # None),
     val |-> [id \in {n \in Nodes : given[n] # None} |->
                 DimensionEntry(id, given[id][1] :> <<given[id][2]>>)]]

ParsedData(given) ==
    [concepts |-> WriterConcepts, linkbases |-> [presentation |-> EmptyOrdered],
     roleTypes |-> WriterRoleTypes,
     dimensions |-> ParsedDimensions(given)]

\* X is a hypercube with the dimension Y, the domain of Y is Z, and the
\* member arcs are E
LoadedRelated(E, id) ==
    LET related == CASE id = ConceptX -> [hypercube |-> <<ConceptY>>, dimension |-> <<ConceptY>>]
                     [] id = ConceptY -> [domain |-> <<ConceptZ>>]
                     [] OTHER -> EmptyDict
    IN  IF TargetsFrom(E, id) = <<>> THEN related
        ELSE Put(related, "member", TargetsFrom(E, id))

LoadedData(E) ==
    [concepts |-> WriterConcepts, linkbases |-> [presentation |-> EmptyOrdered],
     roleTypes |-> WriterRoleTypes,
     dimensions |-> [keys |-> WriterNodes,
                     val |-> [id \in Nodes |-> DimensionEntry(id, LoadedRelated(E, id))]]]

WriterInputs ==
    {HierarchyData(E) : E \in SUBSET Arcs}
    \cup {ParsedData(given) : given \in [Nodes -> Relations]}
    \cup {LoadedData(E) : E \in SUBSET Arcs}

\* a writer made for one of these dictionaries, before any call
InitWriter ==
    /\ NewUtils
    /\ NewParser
    /\ build = "package"
    /\ hash_seed = 0
    /\ fs = ContentFilesystem("plain", <<>>)
    /\ run = 1
    /\ first = <<>>
    /\ reordered = FALSE
    /\ taxonomy_data \in WriterInputs
    /\ writer = IdleWriter

\* the writer called by itself
SpecWriter == InitWriter /\ [][NextWriter]_vars

\* the arcs the builders follow in taxonomy_data: the presentation arcs of
\* role R and the member arcs
FollowedArcs ==
    {a \in Arcs :
        \/ /\ Has(PresentationLinkbases, "R")
           /\ Has(RelationshipsOf("R"), a[1])
           /\ \E i \in 1..Len(RelationshipsOf("R").val[a[1]]) :
                 RelationshipsOf("R").val[a[1]][i].to = a[2]
        \/ \E i \in 1..Len(RelatedIds(a[1], "member")) : RelatedIds(a[1], "member")[i] = a[2]}

\* the concepts reached from S along the arcs of E
RECURSIVE Reached(_, _)
Reached(E, S) ==
    LET next == S \cup {a[2] : a \in {b \in E : b[1] \in S}}
    IN  IF next = S THEN S ELSE Reached(E, next)

\* some concept reaches itself along the arcs of E
HasCycle(E) == \E a \in E : a[1] \in Reached(E, {a[2]})

\* C29: every call of _build_concept_subtree and of _build_member_structure
\* returns, whatever arcs the relationships hold, cycles reachable from a
\* root or from a domain included: no write_* method ends in a RecursionError.
C29_BuildersReturn == writer.status # "RecursionError"

\* a builder fails only on relationships with a cycle
RaisedOnlyOnCycle == writer.status = "RecursionError" => HasCycle(FollowedArcs)

\* a write_* method that has dumped its result has left no call behind
DumpedAfterLastReturn ==
    (writer.hierarchy # None \/ writer.structured # None) /\ writer.status = "idle"
        => writer.stack = <<>> /\ writer.pending = <<>>

\* write_concept_hierarchy has ended in a RecursionError on the network
\* X -> Y, Y -> Z, Z -> Y, whose only root is X
C29_HierarchyRecursionError ==
    /\ taxonomy_data = HierarchyData({<<ConceptX, ConceptY>>, <<ConceptY, ConceptZ>>,
                                      <<ConceptZ, ConceptY>>})
    /\ RootConcepts(RelationshipsOf("R")) = <<ConceptX>>
    /\ writer.status = "RecursionError"
    /\ writer.hierarchy = None

\* write_dimensional_structure has ended in a RecursionError on the domain Z
\* with the member arcs Z -> X and X -> Z
MemberRecursionError ==
    /\ taxonomy_data = LoadedData({<<ConceptZ, ConceptX>>, <<ConceptX, ConceptZ>>})
    /\ writer.status = "RecursionError"
    /\ writer.structured = None

\* write_concept_hierarchy has returned on the network X -> Y, X -> Z, Y -> Z:
\* the one root X has its children in the order of their order, Z before Y,
\* and Z is below Y as well
HierarchyBuilt ==
    /\ taxonomy_data = HierarchyData({<<ConceptX, ConceptY>>, <<ConceptX, ConceptZ>>,
                                      <<ConceptY, ConceptZ>>})
    /\ writer.hierarchy # None
    /\ Len(writer.hierarchy[1].val["R"].roots) = 1
    /\ writer.hierarchy[1].val["R"].roots[1].id = ConceptX
    /\ Targets([j \in 1..2 |-> [to |-> writer.hierarchy[1].val["R"].roots[1].children[j].id]])
           = <<ConceptZ, ConceptY>>
    /\ writer.hierarchy[1].val["R"].roots[1].children[2].children[1].id = ConceptZ

\* self.taxonomy_data.get('dimensions', {})
WriterDimensions == Get(taxonomy_data, "dimensions", EmptyOrdered)

\* the concepts the analyzer recorded as the dimensions of hypercube_id:
\* dimensions[hypercube_id].related.dimension
DimensionsOf(hypercube_id) == Members(RelatedIds(hypercube_id, "dimension"))

\* the concepts that have a hypercube-dimension arc in the store
Hypercubes == {id \in DOMAIN WriterDimensions.val : DimensionsOf(id) # {}}

\* the ids of the structures of a list
Ids(structures) == {structures[j].id : j \in 1..Len(structures)}

\* the dimensional structure holds every hypercube of the store with its dimensions
HypercubesWritten(structured) ==
    \A H \in Hypercubes :
        /\ Has(structured, H)
        /\ DimensionsOf(H) \subseteq Ids(structured.val[H].dimensions)

\* every top-level entry of the dimensional structure is a hypercube of the store
OnlyHypercubesWritten(structured) == DOMAIN structured.val \subseteq Hypercubes

\* C30: the structure write_dimensional_structure has built has, for every
\* concept H whose dimensions[H].related.dimension contains D, an entry for H
\* whose dimensions list contains D, and every top-level entry of it is such
\* a concept.
C30_WriterAgreesOnHypercubes ==
    writer.structured # None =>
        /\ HypercubesWritten(writer.structured[1])
        /\ OnlyHypercubesWritten(writer.structured[1])

\* the entries of the structure are the concepts whose related has the key
\* hypercube, each with its own related.dimension
EntriesAreSourcesOfAll ==
    writer.structured # None =>
        /\ DOMAIN writer.structured[1].val
               = {id \in DOMAIN WriterDimensions.val :
                     "hypercube" \in DOMAIN WriterDimensions.val[id].related}
        /\ \A id \in DOMAIN writer.structured[1].val :
              Ids(writer.structured[1].val[id].dimensions) = DimensionsOf(id)

\* write_dimensional_structure has returned on the dimensions parse() leaves
\* for X -all-> Y and Y -hypercube-dimension-> Z: the structure has an entry
\* for X without dimensions and none for the hypercube Y
C30_HypercubeNotWritten ==
    /\ taxonomy_data = ParsedData((ConceptX :> <<"hypercube", ConceptY>>)
                                  @@ (ConceptY :> <<"dimension", ConceptZ>>)
                                  @@ (ConceptZ :> None))
    /\ Hypercubes = {ConceptY}
    /\ writer.structured # None
    /\ writer.structured[1].keys = <<ConceptX>>
    /\ writer.structured[1].val[ConceptX].dimensions = <<>>

====
